---- MODULE Spec2Model ----
(***************************************************************************)
(* Timeline & subtitle alignment engine of the Orion pipeline.             *)
(*                                                                         *)
(* Time is fixed-point: one tick is 0.1 s, so the Python floats 5.0, 7.5,  *)
(* 4.2 are the integers 50, 75, 42.  Quotients that the code leaves as     *)
(* floats (duration shares, N-way subdivisions) are exact rationals        *)
(* <<numerator, denominator>> in ticks.  Texts are sequences of one-       *)
(* character strings.  A list index is 0-based in the code and in every    *)
(* value the model stores; only the position inside a TLA+ sequence is     *)
(* 1-based.                                                                *)
(*                                                                         *)
(* The arithmetic is exact.  The code computes in binary floating point,   *)
(* whose results can differ from the exact ones in the last place: that    *)
(* can decide a comparison between two values that are equal here, and     *)
(* move a timecode truncated to milliseconds by one millisecond.           *)
(***************************************************************************)
EXTENDS Integers, Sequences, FiniteSets, TLC

VARIABLES
    pc,                 \* position of the run
    total_items,        \* _distribute_counts_by_duration: argument
    durations,          \* _distribute_counts_by_duration: argument
    counts,             \* _distribute_counts_by_duration: return value
    calculator,         \* the TimelineCalculator object
    audio_segments,     \* list of AudioSegment
    narration_segments, \* list of NarrationSegment
    scene_markers,      \* list of scene-start indices (used for membership only)
    timeline_segments,  \* calculate_timeline: return value
    final_time,         \* calculate_timeline: current_time when the loop ends
    subtitle_timeline,  \* calculate_subtitle_timeline: return value
    source_subtitles,   \* list of Subtitle parsed from the source SRT
    nare_script,        \* the file at nare_script_path, split in lines
    nare_to_srt,        \* write_timecode_srt: text matches per narration line
    used_srt,           \* write_timecode_srt: cue indices claimed by text match
    desired_counts,     \* write_timecode_srt: cues wanted per segment
    segment_to_srt,     \* write_timecode_srt: the committed assignment
    cue_assignment,     \* write_timecode_srt: start_sec/end_sec of every cue
    output_srt,         \* the file at output_path
    write_ok,           \* write_timecode_srt: return value
    call_args,          \* a function called on its own: its arguments
    call_result         \* a function called on its own: what it returns

vars == <<pc, total_items, durations, counts, calculator, audio_segments,
          narration_segments, scene_markers, timeline_segments,
          final_time, subtitle_timeline, source_subtitles, nare_script,
          nare_to_srt, used_srt, desired_counts, segment_to_srt,
          cue_assignment, output_srt, write_ok, call_args, call_result>>

----------------------------------------------------------------------------
(* Bounds and units *)

\* milliseconds per tick: the factor of int(seconds * 1000), a tick being 0.1 s
MsPerTick == 100

MaxItems == 6
MaxBuckets == 3
MaxClips == 3

\* bucket durations (ticks) tried by the distribution runs
DistDurations == {0, 20, 60}

\* clip durations (ticks), lead-ins (ticks), frame rates and clip gaps (frames)
\* tried by the timeline runs
ClipDurations == {0, 20, 75}
LeadIns == {0, 30}
FrameRates == {0, 30}
ClipGapFrames == {0, 3}

MaxCues == 4

\* clip durations (ticks) tried by the writer runs
WriterDurations == {0, 10, 25}

\* cue texts and narration lines tried by the writer runs: "a、b" is part of
\* "<s>ab c" once both are normalized, "cde" is similar to "cxde" (ratio 6/7)
CueTexts == << <<"a", "U+3001", "b">>, <<"c", "d", "e">> >>
NareTexts == << <<"<", "s", ">", "a", "b", " ", "c">>, <<"c", "x", "d", "e">> >>

\* the narration speaker and text the timeline runs attach to line k
SpeakerOf(k) == IF k % 2 = 0 THEN <<"D", "L">> ELSE <<"N", "A">>
TextOf(k) == IF k % 2 = 0 THEN <<"a", "?">> ELSE <<"a", "b">>

----------------------------------------------------------------------------
(* Generic helpers *)

RECURSIVE SumSeq(_)
SumSeq(s) == IF s = <<>> THEN 0 ELSE s[1] + SumSeq(Tail(s))

Max(a, b) == IF a >= b THEN a ELSE b
Min(a, b) == IF a <= b THEN a ELSE b

\* the sequence s as an evaluated list (a function constructor
\* [k \in 1..n |-> e] is otherwise evaluated again at every use)
List(s) == <<>> \o s

\* all sequences over S of length lo..hi
SeqsOf(S, lo, hi) == UNION {[1..n -> S] : n \in lo..hi}

----------------------------------------------------------------------------
(* srt.py: _distribute_counts_by_duration *)

\* the sort without reverse=True: shortest durations first
LongestFirstRank_ascending(durs, i) ==
    Cardinality({j \in 1..Len(durs) :
                    durs[j] < durs[i] \/ (durs[j] = durs[i] /\ j < i)})

\* sorted(range(bucket_count), key=durations, reverse=True): stable, so equal
\* durations keep their original order.  Position (0-based) of bucket i.
LongestFirstRank(durs, i) ==
    Cardinality({j \in 1..Len(durs) :
                    durs[j] > durs[i] \/ (durs[j] = durs[i] /\ j < i)})

\* a stable sort on the remainder alone: equal remainders keep index order
RemainderRank_stable(rems, i) ==
    Cardinality({j \in 1..Len(rems) :
                    rems[j] > rems[i] \/ (rems[j] = rems[i] /\ j < i)})

\* remainders.sort(reverse=True) on (remainder, idx) tuples: larger remainder
\* first, and among equal remainders the larger idx first.  Position (0-based)
\* of bucket i.
RemainderRank(rems, i) ==
    Cardinality({j \in 1..Len(rems) :
                    rems[j] > rems[i] \/ (rems[j] = rems[i] /\ j > i)})

\* round() in place of math.floor()
extra_floor_rounded(num, den) == (2 * num + den) \div (2 * den)

\* math.floor(weight * remaining), the product being num / den
extra_floor(num, den) == num \div den

_distribute_counts_by_duration(total, durs0) ==
    LET bucket_count == Len(durs0)
        zero == SumSeq(durs0) <= 0
        \* fallback to even distribution when durations are zero
        durs == IF zero THEN List([i \in 1..bucket_count |-> 1]) ELSE durs0
        total_duration == IF zero THEN bucket_count ELSE SumSeq(durs0)
    IN IF bucket_count = 0 \/ total <= 0
       THEN [i \in 1..bucket_count |-> 0]
       ELSE IF total >= bucket_count
       THEN LET remaining == total - bucket_count
                \* raw_extra[i] = durs[i] * remaining / total_duration
                floors == List([i \in 1..bucket_count |->
                              extra_floor(durs[i] * remaining, total_duration)])
                \* raw_extra[i] - extra_floor[i], in units of 1 / total_duration
                remainders == List([i \in 1..bucket_count |->
                                  durs[i] * remaining - floors[i] * total_duration])
                base == List([i \in 1..bucket_count |-> 1 + floors[i]])
                leftovers == total - SumSeq(base)
            IN [i \in 1..bucket_count |->
                   base[i] + (IF leftovers > 0 /\ RemainderRank(remainders, i) < leftovers
                              THEN 1 ELSE 0)]
       ELSE [i \in 1..bucket_count |->
                IF LongestFirstRank(durs, i) < total THEN 1 ELSE 0]

----------------------------------------------------------------------------
(* timeline.py: TimelineSegment, TimelineCalculator *)

AudioSegment(index, duration_sec) ==
    [index |-> index, duration_sec |-> duration_sec]

NarrationSegment(index, speaker, text) ==
    [index |-> index, speaker |-> speaker, text |-> text]

TimelineSegment(index, duration, start, end, scene, lead_in, a_in, a_out, speaker, text) ==
    [index |-> index,
     audio_duration_sec |-> duration,
     start_time_sec |-> start,
     end_time_sec |-> end,
     is_scene_start |-> scene,
     scene_lead_in_sec |-> lead_in,
     audio_in_offset_sec |-> a_in,
     audio_out_offset_sec |-> a_out,
     speaker |-> speaker,
     text |-> text]

\* __init__: clip_gap_sec = clip_gap_frames / fps if fps > 0 else 0.0, in ticks
TimelineCalculator(fps, lead_in, clip_gap_frames) ==
    [fps |-> fps,
     scene_lead_in_sec |-> lead_in,
     clip_gap_frames |-> clip_gap_frames,
     clip_gap_sec |-> IF fps > 0
                      THEN (clip_gap_frames * 1000) \div (fps * MsPerTick)
                      ELSE 0]

\* the lead-in without the "i > 0" test
lead_in_before_any(self, is_scene_start, i) ==
    IF is_scene_start THEN self.scene_lead_in_sec ELSE 0

\* lead_in = self.scene_lead_in_sec if is_scene_start and i > 0 else 0.0
lead_in_before(self, is_scene_start, i) ==
    IF is_scene_start /\ i > 0 THEN self.scene_lead_in_sec ELSE 0

\* the cursor advanced without the clip gap
advance_current_time_gapless(self, end_time, i, n) == end_time

\* current_time = end_time; plus the clip gap except after the last clip
advance_current_time(self, end_time, i, n) ==
    IF self.clip_gap_sec > 0 /\ i < n - 1
    THEN end_time + self.clip_gap_sec
    ELSE end_time

\* the loop of calculate_timeline from iteration i on, with the cursor at
\* current_time: <<segments appended, final current_time>>
RECURSIVE calculate_timeline_loop(_, _, _, _, _, _)
calculate_timeline_loop(self, audio, nare, markers, i, current_time) ==
    IF i >= Len(audio)
    THEN <<<<>>, current_time>>
    ELSE LET audio_seg == audio[i + 1]
             is_scene_start == i \in markers
             lead_in == lead_in_before(self, is_scene_start, i)
             start_time == current_time + lead_in
             end_time == start_time + audio_seg.duration_sec
             has_nare == nare # <<>> /\ i < Len(nare)
             speaker == IF has_nare THEN nare[i + 1].speaker ELSE <<>>
             text == IF has_nare THEN nare[i + 1].text ELSE <<>>
             seg == TimelineSegment(audio_seg.index, audio_seg.duration_sec,
                                    start_time, end_time, is_scene_start,
                                    lead_in, 0, 0, speaker, text)
             rest == calculate_timeline_loop(
                         self, audio, nare, markers, i + 1,
                         advance_current_time(self, end_time, i, Len(audio)))
         IN <<(<<seg>> \o rest[1]), rest[2]>>

calculate_timeline(self, audio, nare, markers) ==
    calculate_timeline_loop(self, audio, nare, markers, 0, 0)[1]

\* the value of the local current_time when calculate_timeline returns
calculate_timeline_cursor(self, audio, nare, markers) ==
    calculate_timeline_loop(self, audio, nare, markers, 0, 0)[2]

----------------------------------------------------------------------------
(* mapper.py: SubtitleMapping; timeline.py: calculate_subtitle_timeline *)

SubtitleMapping(audio_index, subtitle_index, proportion, allocated) ==
    [audio_index |-> audio_index,
     subtitle_index |-> subtitle_index,
     proportion |-> proportion,
     allocated_duration_sec |-> allocated]

\* the mappings find_audio_subtitle_mapping builds when every clip takes
\* exactly one cue: cue sub_idx (0-based) goes to the clip at the same
\* position with subtitle_index = sub_idx + 1 and the whole duration
one_cue_per_clip_mappings(audio) ==
    [k \in 1..Len(audio) |->
        SubtitleMapping(audio[k].index, (k - 1) + 1, <<1, 1>>,
                        audio[k].duration_sec)]

\* audio_offset_tracker.get(audio_idx, 0.0)
tracker_get(tracker, audio_idx) ==
    IF audio_idx \in DOMAIN tracker THEN tracker[audio_idx] ELSE 0

\* the loop of calculate_subtitle_timeline from the k-th mapping (0-based) on
RECURSIVE calculate_subtitle_timeline_loop(_, _, _, _, _, _)
calculate_subtitle_timeline_loop(self, mappings, markers, k, current_time, tracker) ==
    IF k >= Len(mappings)
    THEN <<>>
    ELSE LET mapping == mappings[k + 1]
             is_scene_start == mapping.subtitle_index \in markers
             \* len(timeline_segments) = k
             lead_in == IF is_scene_start /\ k > 0
                        THEN self.scene_lead_in_sec ELSE 0
             start_time == current_time + lead_in
             end_time == start_time + mapping.allocated_duration_sec
             audio_idx == mapping.audio_index
             audio_in == tracker_get(tracker, audio_idx)
             audio_out == audio_in + mapping.allocated_duration_sec
             tracker2 == [x \in DOMAIN tracker \cup {audio_idx} |->
                             IF x = audio_idx THEN audio_out ELSE tracker[x]]
             seg == TimelineSegment(mapping.subtitle_index,
                                    mapping.allocated_duration_sec,
                                    start_time, end_time, is_scene_start,
                                    lead_in, audio_in, audio_out, <<>>, <<>>)
         IN <<seg>> \o calculate_subtitle_timeline_loop(
                           self, mappings, markers, k + 1, end_time, tracker2)

calculate_subtitle_timeline(self, mappings, markers) ==
    calculate_subtitle_timeline_loop(self, mappings, markers, 0, 0, <<>>)

----------------------------------------------------------------------------
(* parsers/srt.py: Subtitle, ms_to_time; writers/srt.py: timecodes, texts *)

\* a timecode "HH:MM:SS,mmm" as its four zero-padded numeric fields
Timecode(hours, minutes, secs, milliseconds) ==
    <<hours, minutes, secs, milliseconds>>

ms_to_time(ms) ==
    Timecode(ms \div 3600000,
             (ms % 3600000) \div 60000,
             ((ms % 3600000) % 60000) \div 1000,
             ((ms % 3600000) % 60000) % 1000)

\* the value of an attribute that has not been set on the object
NotSet == <<"<unset>">>

Subtitle(index, start_time, end_time, text) ==
    [index |-> index, start_time |-> start_time, end_time |-> end_time,
     text |-> text, normalized |-> NotSet]

\* int(x) of the rational num / den (den > 0): truncation toward zero
int_of(num, den) ==
    IF num >= 0 THEN num \div den ELSE -((-num) \div den)

\* srt_timecode_from_seconds of the rational sec = <<num, den>> ticks
srt_timecode_from_seconds(sec) ==
    LET total_ms == int_of(sec[1] * MsPerTick, sec[2])
        milliseconds == total_ms % 1000
        total_seconds == total_ms \div 1000
    IN Timecode(total_seconds \div 3600,
                (total_seconds % 3600) \div 60,
                total_seconds % 60,
                milliseconds)

\* \s of the regular expressions
Whitespace == {" ", "\n", "\t"}

\* the class [、。，．？！…—―「」『』（）] of normalize_text, by code point
Punctuation ==
    {"U+3001", "U+3002", "U+FF0C", "U+FF0E", "U+FF1F", "U+FF01", "U+2026",
     "U+2014", "U+2015", "U+300C", "U+300D", "U+300E", "U+300F", "U+FF08",
     "U+FF09"}

SubSeqFrom(s, i) == SubSeq(s, i, Len(s))

\* re.sub(r'<[^>]+>', '', text): at a "<" whose next ">" lies at least two
\* places further, drop through that ">"; otherwise keep the character
RECURSIVE remove_tags(_)
remove_tags(text) ==
    IF text = <<>> THEN <<>>
    ELSE LET closers == {j \in 2..Len(text) : text[j] = ">"}
             first == CHOOSE j \in closers : \A k \in closers : j <= k
         IN IF text[1] = "<" /\ closers # {} /\ first >= 3
            THEN remove_tags(SubSeqFrom(text, first + 1))
            ELSE <<text[1]>> \o remove_tags(Tail(text))

normalize_text(text) ==
    SelectSeq(remove_tags(text),
              LAMBDA c : c \notin Whitespace /\ c \notin Punctuation)

\* a in b for strings
is_substring(a, b) ==
    \E off \in 0..(Len(b) - Len(a)) : SubSeq(b, off + 1, off + Len(a)) = a

\* length of the run of equal characters of a from i and b from j (0-based),
\* inside a[..ahi) and b[..bhi)
RECURSIVE common_run(_, _, _, _, _, _)
common_run(a, b, i, j, ahi, bhi) ==
    IF i < ahi /\ j < bhi /\ a[i + 1] = b[j + 1]
    THEN 1 + common_run(a, b, i + 1, j + 1, ahi, bhi)
    ELSE 0

\* the length of the block starting at every pair of places of a[alo:ahi] and
\* b[blo:bhi], ordered by the start in a and then by the start in b
block_sizes(a, b, alo, ahi, blo, bhi) ==
    List([p \in 1..((ahi - alo) * (bhi - blo)) |->
            common_run(a, b, alo + ((p - 1) \div (bhi - blo)),
                       blo + ((p - 1) % (bhi - blo)), ahi, bhi)])

\* the longest block, of those the one starting earliest in a, of those the
\* one starting earliest in b: <<i, j, size>>
longest_block(sizes, alo, blo, w) ==
    LET best == CHOOSE p \in 1..Len(sizes) :
                    /\ \A o \in 1..Len(sizes) : sizes[o] <= sizes[p]
                    /\ \A o \in 1..(p - 1) : sizes[o] < sizes[p]
    IN <<alo + ((best - 1) \div w), blo + ((best - 1) % w), sizes[best]>>

\* SequenceMatcher.find_longest_match(alo, ahi, blo, bhi), both ranges non-empty
find_longest_match(a, b, alo, ahi, blo, bhi) ==
    longest_block(block_sizes(a, b, alo, ahi, blo, bhi), alo, blo, bhi - blo)

\* SequenceMatcher.get_matching_blocks on a[alo:ahi], b[blo:bhi]: the total
\* size of the blocks.  The longest match m is a block, and the pieces left
\* and right of it are matched the same way.
RECURSIVE matching_size(_, _, _, _, _, _)
blocks_around(a, b, alo, ahi, blo, bhi, m) ==
    IF m[3] = 0 THEN 0
    ELSE m[3] + matching_size(a, b, alo, m[1], blo, m[2])
              + matching_size(a, b, m[1] + m[3], ahi, m[2] + m[3], bhi)

matching_size(a, b, alo, ahi, blo, bhi) ==
    IF alo >= ahi \/ blo >= bhi THEN 0
    ELSE blocks_around(a, b, alo, ahi, blo, bhi,
                       find_longest_match(a, b, alo, ahi, blo, bhi))

\* text_similarity: SequenceMatcher(None, a, b).ratio() = 2.0 * M / T, as the
\* rational <<numerator, denominator>> (1.0 when both are empty)
text_similarity(a, b) ==
    IF Len(a) + Len(b) = 0 THEN <<1, 1>>
    ELSE <<2 * matching_size(a, b, 0, Len(a), 0, Len(b)), Len(a) + Len(b)>>

\* comparison of non-negative rationals by cross-multiplication
RatLess(x, y) == x[1] * y[2] < y[1] * x[2]
RatEq(x, y) == x[1] * y[2] = y[1] * x[2]

----------------------------------------------------------------------------
(* writers/srt.py: write_timecode_srt *)

\* best_matches[:5]
TopMatches == 5

_segment_durations(segments) ==
    List([k \in 1..Len(segments) |->
             Max(0, segments[k].end_time_sec - segments[k].start_time_sec)])

\* the similarity of cue srt_norm to narration line nare_norm (lines 209-214)
match_similarity(srt_norm, nare_norm) ==
    IF is_substring(srt_norm, nare_norm) \/ is_substring(nare_norm, srt_norm)
    THEN <<1, 1>>
    ELSE text_similarity(srt_norm, nare_norm)

\* the similarity of every cue to one narration line (0 for a cue in used,
\* which the loop skips)
similarities(nare_norm, subs_norm, used) ==
    List([k \in 1..Len(subs_norm) |->
            IF (k - 1) \in used THEN <<0, 1>>
            ELSE match_similarity(subs_norm[k], nare_norm)])

\* best_matches after its sort: the unused cues (0-based) with similarity
\* > 0.5, by similarity (descending, equal ones in cue order)
best_matches(sims, used) ==
    LET cands == {c \in 0..(Len(sims) - 1) :
                     c \notin used /\ RatLess(<<1, 2>>, sims[c + 1])}
        rank(c) == Cardinality({o \in cands :
                        \/ RatLess(sims[c + 1], sims[o + 1])
                        \/ (RatEq(sims[c + 1], sims[o + 1]) /\ o < c)})
    IN List([r \in 1..Cardinality(cands) |-> CHOOSE c \in cands : rank(c) = r - 1])

\* s[:n]
FirstN(s, n) == SubSeq(s, 1, Min(n, Len(s)))

\* the cues one narration line claims: best_matches[:5]
claimed_by(nare_norm, subs_norm, used) ==
    FirstN(best_matches(similarities(nare_norm, subs_norm, used), used),
           TopMatches)

SeqRange(q) == {q[k] : k \in 1..Len(q)}

\* nare_to_srt[nare_idx] and used_srt after one narration line took mine
claim(acc, mine) == <<Append(acc[1], mine), acc[2] \cup SeqRange(mine)>>

\* the text-matching loop (lines 196-225) from narration line nare_idx on;
\* acc is <<nare_to_srt[:nare_idx], used_srt>>, the result the same at width
RECURSIVE text_match_loop(_, _, _, _, _, _)
text_match_loop(nare_normalized, subs_norm, total_clips, width, nare_idx, acc) ==
    IF nare_idx >= width THEN acc
    ELSE text_match_loop(nare_normalized, subs_norm, total_clips, width,
             nare_idx + 1,
             IF nare_idx >= Len(nare_normalized) \/ nare_idx >= total_clips
             THEN claim(acc, <<>>)
             ELSE claim(acc, claimed_by(nare_normalized[nare_idx + 1],
                                        subs_norm, acc[2])))

\* range(lo, hi + 1): the end included
RangeList_inclusive(lo, hi) == List([k \in 1..Max(0, hi - lo + 1) |-> lo + k - 1])

\* list(range(lo, hi))
RangeList(lo, hi) == List([k \in 1..Max(0, hi - lo) |-> lo + k - 1])

\* the fallback without a narration script (lines 228-241) from clip_idx on,
\* the next cue being sub_idx: <<matched entries, claimed>>
RECURSIVE no_script_loop(_, _, _, _, _)
no_script_loop(total_subs, total_clips, width, clip_idx, sub_idx) ==
    IF clip_idx >= width
    THEN <<<<>>, 0..(sub_idx - 1)>>
    ELSE IF clip_idx >= total_clips
    THEN <<[k \in 1..(width - clip_idx) |-> <<>>], 0..(sub_idx - 1)>>
    ELSE LET remaining_subs == total_subs - sub_idx
             remaining_clips == total_clips - clip_idx
             assign == Max(1, remaining_subs \div remaining_clips)
             next_idx == Min(total_subs, sub_idx + assign)
             rest == no_script_loop(total_subs, total_clips, width,
                                    clip_idx + 1, next_idx)
         IN <<(<<RangeList(sub_idx, next_idx)>> \o rest[1]), rest[2]>>

\* a take of every cue that is left
take_for_all(desired, total_subs, cursor) == total_subs - cursor

\* take for one segment of the sequential walk (lines 261-265)
take_for(desired, total_subs, cursor) ==
    LET take == Max(0, Min(desired, total_subs - cursor))
    IN IF take = 0 /\ (total_subs - cursor) > 0
       THEN Min(1, total_subs - cursor)
       ELSE take

\* the sequential walk (lines 257-270) from segment seg_idx on:
\* <<committed entries from seg_idx on, cursor>>
RECURSIVE sequential_walk(_, _, _, _)
sequential_walk(wanted, total_subs, seg_idx, cursor) ==
    IF seg_idx >= Len(wanted)
    THEN <<<<>>, cursor>>
    ELSE IF cursor >= total_subs
    THEN <<[k \in 1..(Len(wanted) - seg_idx) |-> <<>>], cursor>>
    ELSE LET take == take_for(wanted[seg_idx + 1], total_subs, cursor)
             rest == sequential_walk(wanted, total_subs, seg_idx + 1,
                                     cursor + take)
         IN <<(<<RangeList(cursor, cursor + take)>> \o rest[1]), rest[2]>>

\* leftover cues go to the final segment (lines 272-276); walk and the
\* result are <<segment_to_srt, cursor>>
with_leftovers(walk, total_subs) ==
    IF walk[2] < total_subs /\ walk[1] # <<>>
    THEN <<[walk[1] EXCEPT ![Len(walk[1])] = @ \o RangeList(walk[2], total_subs)],
           total_subs>>
    ELSE walk

\* start_sec of cue j of num_subs in the segment (lines 308-313), a rational
sub_start(seg_start, seg_end, j, num_subs) ==
    IF num_subs = 1 THEN <<seg_start, 1>>
    ELSE <<seg_start * num_subs + (seg_end - seg_start) * j, num_subs>>

\* end_sec one share too far: (j + 2) in place of (j + 1)
sub_end_overrun(seg_start, seg_end, j, num_subs) ==
    IF num_subs = 1 THEN <<seg_end, 1>>
    ELSE <<seg_start * num_subs + (seg_end - seg_start) * (j + 2), num_subs>>

\* end_sec of cue j of num_subs in the segment (lines 308-313), a rational
sub_end(seg_start, seg_end, j, num_subs) ==
    IF num_subs = 1 THEN <<seg_end, 1>>
    ELSE <<seg_start * num_subs + (seg_end - seg_start) * (j + 1), num_subs>>

\* the CueAssignments of one segment, in the order they are emitted
segment_assignments(segment, nare_idx, srt_indices) ==
    List([k \in 1..Len(srt_indices) |->
        [cue |-> srt_indices[k],
         segment |-> nare_idx,
         start_sec |-> sub_start(segment.start_time_sec, segment.end_time_sec,
                                 k - 1, Len(srt_indices)),
         end_sec |-> sub_end(segment.start_time_sec, segment.end_time_sec,
                             k - 1, Len(srt_indices))]])

\* the generation loop (lines 291-321) from segment nare_idx on
RECURSIVE generation_loop(_, _, _, _)
generation_loop(segments, committed, limit, nare_idx) ==
    IF nare_idx >= limit THEN <<>>
    ELSE segment_assignments(segments[nare_idx + 1], nare_idx,
                             committed[nare_idx + 1])
         \o generation_loop(segments, committed, limit, nare_idx + 1)

\* an entry that carries the normalized text in place of subtitle.text
srt_entry_normalized(cue_number, assignment, subtitle) ==
    [number |-> cue_number,
     start_time |-> srt_timecode_from_seconds(assignment.start_sec),
     end_time |-> srt_timecode_from_seconds(assignment.end_sec),
     text |-> subtitle.normalized]

\* the four output lines of one cue: number, "start --> end", text, ""
srt_entry(cue_number, assignment, subtitle) ==
    [number |-> cue_number,
     start_time |-> srt_timecode_from_seconds(assignment.start_sec),
     end_time |-> srt_timecode_from_seconds(assignment.end_sec),
     text |-> subtitle.text]

\* the value of an output path that does not exist
NoFile == [exists |-> FALSE, content |-> <<>>]

\* the file with the given content
FileOf(content) == [exists |-> TRUE, content |-> content]

\* the narration lines (lines 171-185); script is the file at
\* nare_script_path, its content split in lines
load_nare_lines(script, nare_segments) ==
    IF nare_segments # <<>>
    THEN List([k \in 1..Len(nare_segments) |-> nare_segments[k].text])
    ELSE IF script.exists THEN script.content ELSE <<>>

\* sub.normalized = normalize_text(sub.text) on every cue (lines 188-189)
normalize_subtitles(subs) ==
    List([k \in 1..Len(subs) |->
            [subs[k] EXCEPT !.normalized = normalize_text(subs[k].text)]])

\* phase 1 (lines 192-241): <<nare_to_srt, used_srt>>
map_nare_lines(nare_lines, subs, total_clips) ==
    IF nare_lines # <<>>
    THEN text_match_loop(
             List([k \in 1..Len(nare_lines) |-> normalize_text(nare_lines[k])]),
             List([k \in 1..Len(subs) |-> subs[k].normalized]),
             total_clips, Max(Len(nare_lines), total_clips), 0, <<<<>>, {}>>)
    ELSE no_script_loop(Len(subs), total_clips,
                        Max(Len(nare_lines), total_clips), 0, 0)

\* the segments that have a text match of their own, counted in place of
\* the length of nare_to_srt
segment_count_matched(segments, matched) ==
    Min(Len(segments), Cardinality({k \in 1..Len(matched) : matched[k] # <<>>}))

\* segment_count = min(len(timeline_segments), len(nare_to_srt)) (line 244)
segment_count(segments, matched) == Min(Len(segments), Len(matched))

\* segment_to_srt = [[] for _ in range(total_clips)] if it is empty (line 283)
fill_empty(committed, total_clips) ==
    IF committed = <<>> THEN [k \in 1..total_clips |-> <<>>] ELSE committed

\* the cues in the order the generation loop emits them (lines 291-321)
generate(segments, filled) ==
    generation_loop(segments, filled, Min(Len(filled), Len(segments)), 0)

\* output_lines, one entry for the four lines of a cue
render(assignments, subs) ==
    List([k \in 1..Len(assignments) |->
            srt_entry(k, assignments[k], subs[assignments[k].cue + 1])])

\* a guard that lets a call with no cues and some clips through
nothing_to_process_both_empty(total_subs, total_clips) ==
    total_subs = 0 /\ total_clips = 0

\* if total_subs == 0 or total_clips == 0 (line 167)
nothing_to_process(total_subs, total_clips) ==
    total_subs = 0 \/ total_clips = 0

\* write_timecode_srt up to its return: every local the run looks at, the
\* subtitles as the call leaves them, the file it writes and its result.
\* io_ok tells whether opening and writing output_path succeeds.  The locals
\* nare_to_srt and used_srt are the two parts of phase1, desired_counts is
\* called wanted, segment_to_srt and cursor are the two parts of committed.
write_timecode_srt(file, subs, segments, script, nare_segments, io_ok) ==
    LET total_subs == Len(subs)
        total_clips == Len(segments)
        subs2 == normalize_subtitles(subs)
        phase1 == map_nare_lines(load_nare_lines(script, nare_segments), subs2,
                                 total_clips)
        wanted == _distribute_counts_by_duration(total_subs,
                      _segment_durations(SubSeq(segments, 1,
                                             segment_count(segments, phase1[1]))))
        committed == with_leftovers(sequential_walk(wanted, total_subs, 0, 0),
                                    total_subs)
        assignments == generate(segments, fill_empty(committed[1], total_clips))
        blank == [subs |-> subs, nare_to_srt |-> <<>>, used_srt |-> {},
                  desired_counts |-> <<>>, segment_to_srt |-> <<>>,
                  assignments |-> <<>>, file |-> file, result |-> FALSE]
        mapped == [blank EXCEPT !.subs = subs2, !.nare_to_srt = phase1[1],
                                !.used_srt = phase1[2],
                                !.desired_counts = wanted]
    IN IF nothing_to_process(total_subs, total_clips)
       THEN blank
       ELSE IF committed[2] < total_subs
       THEN [mapped EXCEPT !.segment_to_srt = committed[1]]
       ELSE [mapped EXCEPT !.segment_to_srt = fill_empty(committed[1], total_clips),
                           !.assignments = assignments,
                           !.file = IF io_ok
                                    THEN FileOf(render(assignments, subs2))
                                    ELSE file,
                           !.result = io_ok]

\* write_merged_srt (lines 338-368): the same call on the path in exports/
write_merged_srt(file, subs, segments, script, nare_segments, io_ok) ==
    write_timecode_srt(file, subs, segments, script, nare_segments, io_ok)

----------------------------------------------------------------------------
(* timeline.py: compute_gap.  Gaps are in microseconds until round(gap, 3)  *)
(* turns them into milliseconds.                                            *)

\* the constants of timeline.py, in milliseconds (per character for the
\* coefficient)
BASE_GAP_NA == 350
BASE_GAP_DL == 600
SCENE_GAP == 1800
QUESTION_BONUS == 300
LONG_TEXT_COEF == 4
LONG_TEXT_MAX == 400

LowerCase == <<"a", "b", "c", "d", "e", "f", "g", "h", "i", "j", "k", "l", "m",
               "n", "o", "p", "q", "r", "s", "t", "u", "v", "w", "x", "y", "z">>
UpperCase == <<"A", "B", "C", "D", "E", "F", "G", "H", "I", "J", "K", "L", "M",
               "N", "O", "P", "Q", "R", "S", "T", "U", "V", "W", "X", "Y", "Z">>

\* str.upper() on one character
upper_char(c) ==
    IF \E k \in 1..Len(LowerCase) : LowerCase[k] = c
    THEN UpperCase[CHOOSE k \in 1..Len(LowerCase) : LowerCase[k] = c]
    ELSE c

\* str.upper()
upper(text) == [k \in 1..Len(text) |-> upper_char(text[k])]

\* the base without role.upper(): the role is compared as it is spelled
base_gap_as_spelled(role) ==
    IF role \in {<<"D", "L">>, <<"Q">>, <<"D", "I", "A", "L", "O", "G", "U", "E">>}
    THEN BASE_GAP_DL * 1000 ELSE BASE_GAP_NA * 1000

\* base = BASE_GAP_DL if role_upper in ('DL', 'Q', 'DIALOGUE') else BASE_GAP_NA
base_gap(role) ==
    IF upper(role) \in {<<"D", "L">>, <<"Q">>,
                        <<"D", "I", "A", "L", "O", "G", "U", "E">>}
    THEN BASE_GAP_DL * 1000 ELSE BASE_GAP_NA * 1000

\* the question bonus: '？' (U+FF1F) or '?' in text
question_bonus(text) ==
    IF \E k \in 1..Len(text) : text[k] \in {"U+FF1F", "?"}
    THEN QUESTION_BONUS * 1000 ELSE 0

\* the long text bonus without its maximum
long_text_bonus_uncapped(text) ==
    IF text # <<>> THEN Len(text) * LONG_TEXT_COEF * 1000 ELSE 0

\* the long text bonus: min(LONG_TEXT_MAX, len(text) * LONG_TEXT_COEF)
long_text_bonus(text) ==
    IF text # <<>>
    THEN Min(LONG_TEXT_MAX * 1000, Len(text) * LONG_TEXT_COEF * 1000)
    ELSE 0

\* a scene end that is not looked at
scene_minimum_ignored(gap, is_scene_end) == gap

\* gap = max(gap, SCENE_GAP) if is_scene_end
scene_minimum(gap, is_scene_end) ==
    IF is_scene_end THEN Max(gap, SCENE_GAP * 1000) ELSE gap

\* round(gap, 3): microseconds to the nearest millisecond, a half to the even
\* one
round3(us) ==
    IF us % 1000 > 500 \/ (us % 1000 = 500 /\ (us \div 1000) % 2 = 1)
    THEN (us \div 1000) + 1
    ELSE us \div 1000

\* compute_gap(text, role, is_scene_end), in milliseconds
compute_gap(text, role, is_scene_end) ==
    round3(scene_minimum(base_gap(role) + question_bonus(text)
                             + long_text_bonus(text),
                         is_scene_end))

----------------------------------------------------------------------------
(* Frame timecodes "HH:MM:SS:FF" (core/timeline.py).  Seconds are whole    *)
(* milliseconds, a frame rate is the rational <<num, den>>, a string is a   *)
(* sequence of one-character strings.                                       *)

DigitChars == <<"0", "1", "2", "3", "4", "5", "6", "7", "8", "9">>

\* str(n) of a natural number
RECURSIVE decimal(_)
decimal(n) ==
    IF n < 10 THEN <<DigitChars[n + 1]>>
    ELSE Append(decimal(n \div 10), DigitChars[(n % 10) + 1])

\* the format specification 0<width>d: zeros in front up to the width, never
\* a digit dropped
format_d(n, width) ==
    [k \in 1..(width - Len(decimal(n))) |-> "0"] \o decimal(n)

IsDigits(text) ==
    /\ text # <<>>
    /\ \A k \in 1..Len(text) : \E d \in 1..10 : DigitChars[d] = text[k]

\* int(text) of a string of digits
RECURSIVE int_of_digits(_)
int_of_digits(text) ==
    IF text = <<>> THEN 0
    ELSE 10 * int_of_digits(SubSeq(text, 1, Len(text) - 1))
             + (CHOOSE d \in 0..9 : DigitChars[d + 1] = text[Len(text)])

\* text.split(sep) for a separator of one character
RECURSIVE split(_, _)
split(text, sep) ==
    IF \A k \in 1..Len(text) : text[k] # sep THEN <<text>>
    ELSE LET at == CHOOSE k \in 1..Len(text) :
                       text[k] = sep /\ \A j \in 1..(k - 1) : text[j] # sep
         IN <<SubSeq(text, 1, at - 1)>> \o split(SubSeqFrom(text, at + 1), sep)

\* int(round(fps)) of the rate num / den: the nearest integer, a half to the
\* even one
fps_rounded_of(fps) ==
    LET whole == fps[1] \div fps[2]
        rest2 == 2 * (fps[1] % fps[2])
    IN IF rest2 > fps[2] \/ (rest2 = fps[2] /\ whole % 2 = 1) THEN whole + 1
       ELSE whole

\* <<a * b \div c, a * b % c>> for a, b >= 0 and c > 0, computed from the
\* binary digits of a so that no product leaves the 32 bits of the integers
RECURSIVE mul_div(_, _, _)
mul_div(a, b, c) ==
    IF a = 0 THEN <<0, 0>>
    ELSE LET half == mul_div(a \div 2, b, c)
             rest == 2 * half[2] + (a % 2) * b
         IN <<2 * half[1] + rest \div c, rest % c>>

\* seconds_to_timecode(seconds, fps)
seconds_to_timecode(seconds_ms, fps) ==
    LET total_frames == mul_div(seconds_ms, fps[1], 1000 * fps[2])[1]
        frames == total_frames % fps_rounded_of(fps)
        total_seconds == total_frames \div fps_rounded_of(fps)
    IN format_d(total_seconds \div 3600, 2) \o <<":">>
           \o format_d((total_seconds % 3600) \div 60, 2) \o <<":">>
           \o format_d(total_seconds % 60, 2) \o <<":">>
           \o format_d(frames, 2)

\* what a call that raises leaves in the place of its result
Raised(error, detail) == [raised |-> error, detail |-> detail]

\* timecode_to_seconds(timecode, fps): the seconds as the rational
\* <<num, den>>, or the ValueError
timecode_to_seconds(timecode, fps) ==
    LET parts == split(timecode, ":")
    IN IF Len(parts) # 4 \/ \E k \in 1..Len(parts) : ~IsDigits(parts[k])
       THEN Raised("ValueError", timecode)
       ELSE <<(int_of_digits(parts[1]) * 3600 + int_of_digits(parts[2]) * 60
                   + int_of_digits(parts[3])) * fps[1]
                  + int_of_digits(parts[4]) * fps[2],
              fps[1]>>

----------------------------------------------------------------------------
(* Millisecond timecodes "HH:MM:SS,mmm" as strings (core/parsers/srt.py,   *)
(* core/writers/srt.py)                                                     *)

\* what a call that returns leaves in the place of its result
Returned(value) == [raised |-> "", detail |-> value]

\* the f-string of ms_to_time and of srt_timecode_from_seconds
format_time(timecode) ==
    format_d(timecode[1], 2) \o <<":">> \o format_d(timecode[2], 2) \o <<":">>
        \o format_d(timecode[3], 2) \o <<",">> \o format_d(timecode[4], 3)

\* _TIME_RE.match(text): (\d{2}):(\d{2}):(\d{2}),(\d{3}) at the start of the
\* text, anything after it
time_re_match(text) ==
    /\ Len(text) >= 12
    /\ \A k \in {1, 2, 4, 5, 7, 8, 10, 11, 12} : IsDigits(<<text[k]>>)
    /\ text[3] = ":" /\ text[6] = ":" /\ text[9] = ","

\* the factor of the hours taken as that of the minutes
time_to_ms_hours_as_minutes(time_str) ==
    IF ~time_re_match(time_str) THEN Raised("ValueError", time_str)
    ELSE Returned(int_of_digits(SubSeq(time_str, 1, 2)) * 60000
                      + int_of_digits(SubSeq(time_str, 4, 5)) * 60000
                      + int_of_digits(SubSeq(time_str, 7, 8)) * 1000
                      + int_of_digits(SubSeq(time_str, 10, 12)))

\* time_to_ms(time_str): the milliseconds, or the ValueError
time_to_ms(time_str) ==
    IF ~time_re_match(time_str) THEN Raised("ValueError", time_str)
    ELSE Returned(int_of_digits(SubSeq(time_str, 1, 2)) * 3600000
                      + int_of_digits(SubSeq(time_str, 4, 5)) * 60000
                      + int_of_digits(SubSeq(time_str, 7, 8)) * 1000
                      + int_of_digits(SubSeq(time_str, 10, 12)))

----------------------------------------------------------------------------
(* parse_srt (core/parsers/srt.py): the content of a subtitle file, a      *)
(* string, to the list of its cues or a ValueError                          *)

\* the index of the first character of the text that is not whitespace,
\* Len(text) + 1 if there is none
first_non_space(text) ==
    IF \A k \in 1..Len(text) : text[k] \in Whitespace THEN Len(text) + 1
    ELSE CHOOSE k \in 1..Len(text) :
             text[k] \notin Whitespace /\ \A j \in 1..(k - 1) : text[j] \in Whitespace

\* text.strip()
strip(text) ==
    IF \A k \in 1..Len(text) : text[k] \in Whitespace THEN <<>>
    ELSE SubSeq(text, first_non_space(text),
                CHOOSE k \in 1..Len(text) :
                    text[k] \notin Whitespace
                        /\ \A j \in (k + 1)..Len(text) : text[j] \in Whitespace)

starts_with(text, prefix) ==
    Len(text) >= Len(prefix) /\ SubSeq(text, 1, Len(prefix)) = prefix

\* the number of whitespace characters the text starts with that a "\s*"
\* takes when the pattern goes on with "\n" (or, at_end, with "$" under
\* re.MULTILINE): the longest start of the run that such a place follows,
\* -1 if there is none
space_before_newline(text, at_end) ==
    LET run == first_non_space(text) - 1
        stops == {n \in 0..run : \/ n < Len(text) /\ text[n + 1] = "\n"
                                 \/ at_end /\ n = Len(text)}
    IN IF stops = {} THEN -1 ELSE CHOOSE n \in stops : \A m \in stops : m <= n

\* re.sub(r"```srt\s*", "", content); the backtick is "U+0060" here.  The
\* text up to the leftmost match is kept, the match is dropped, and the
\* rest is searched the same way.
RECURSIVE remove_fence_open(_)
remove_fence_open(content) ==
    LET opens == {p \in 1..Len(content) :
                     starts_with(SubSeqFrom(content, p),
                                 <<"U+0060", "U+0060", "U+0060", "s", "r", "t">>)}
    IN IF opens = {} THEN content
       ELSE LET at == CHOOSE p \in opens : \A q \in opens : p <= q
            IN SubSeq(content, 1, at - 1)
                   \o remove_fence_open(SubSeqFrom(content,
                          at + 5 + first_non_space(SubSeqFrom(content, at + 6))))

\* re.sub(r"```\s*$", "", content, flags=re.MULTILINE)
RECURSIVE remove_fence_close(_)
remove_fence_close(content) ==
    LET closes == {p \in 1..Len(content) :
                      /\ starts_with(SubSeqFrom(content, p),
                                     <<"U+0060", "U+0060", "U+0060">>)
                      /\ space_before_newline(SubSeqFrom(content, p + 3), TRUE) >= 0}
    IN IF closes = {} THEN content
       ELSE LET at == CHOOSE p \in closes : \A q \in closes : p <= q
            IN SubSeq(content, 1, at - 1)
                   \o remove_fence_close(SubSeqFrom(content,
                          at + 3 + space_before_newline(SubSeqFrom(content, at + 3),
                                                        TRUE)))

\* the places of the text where \n\s*\n matches
separators(text) ==
    {i \in 1..Len(text) :
         text[i] = "\n" /\ space_before_newline(SubSeqFrom(text, i + 1), FALSE) >= 0}

\* re.split(r"\n\s*\n", text) from the part begun: the blocks
RECURSIVE split_blocks(_, _)
split_blocks(text, begun) ==
    IF separators(text) = {} THEN <<begun \o text>>
    ELSE LET at == CHOOSE i \in separators(text) : \A j \in separators(text) : i <= j
         IN <<begun \o SubSeq(text, 1, at - 1)>>
                \o split_blocks(SubSeqFrom(text,
                        at + 2 + space_before_newline(SubSeqFrom(text, at + 1), FALSE)),
                                <<>>)

\* text.splitlines()
splitlines(text) ==
    IF text = <<>> THEN <<>>
    ELSE IF text[Len(text)] = "\n" THEN split(SubSeq(text, 1, Len(text) - 1), "\n")
    ELSE split(text, "\n")

\* "\n".join(lines)
RECURSIVE join_lines(_)
join_lines(lines) ==
    IF lines = <<>> THEN <<>>
    ELSE IF Len(lines) = 1 THEN lines[1]
    ELSE lines[1] \o <<"\n">> \o join_lines(Tail(lines))

\* int(text) succeeds: digits, a sign allowed in front, whitespace around
is_int_literal(text) ==
    \/ IsDigits(strip(text))
    \/ Len(strip(text)) >= 2 /\ strip(text)[1] \in {"+", "-"} /\ IsDigits(Tail(strip(text)))

\* int(text) where it succeeds
int_literal(text) ==
    IF strip(text)[1] = "-" THEN -int_of_digits(Tail(strip(text)))
    ELSE IF strip(text)[1] = "+" THEN int_of_digits(Tail(strip(text)))
    ELSE int_of_digits(strip(text))

\* the match of (\d{2}:\d{2}:\d{2},\d{3})\s*-->\s*(\d{2}:\d{2}:\d{2},\d{3})
\* at the start of the line: <<start_time, end_time>>, <<>> without a match
timecode_match(line) ==
    IF ~time_re_match(line) THEN <<>>
    ELSE LET arrow == SubSeqFrom(line, 12 + first_non_space(SubSeqFrom(line, 13)))
         IN IF ~starts_with(arrow, <<"-", "-", ">">>) THEN <<>>
            ELSE LET second == SubSeqFrom(arrow, 3 + first_non_space(SubSeqFrom(arrow, 4)))
                 IN IF time_re_match(second)
                    THEN <<SubSeq(line, 1, 12), SubSeq(second, 1, 12)>>
                    ELSE <<>>

\* a validation that takes a start equal to the end
validate_start_after_end(subtitle) ==
    LET start_ms == time_to_ms(subtitle.start_time)
        end_ms == time_to_ms(subtitle.end_time)
    IN IF start_ms.raised # "" THEN <<FALSE, "Invalid start_time format">>
       ELSE IF end_ms.raised # "" THEN <<FALSE, "Invalid end_time format">>
       ELSE IF start_ms.detail > end_ms.detail THEN <<FALSE, "start_time >= end_time">>
       ELSE IF end_ms.detail - start_ms.detail > 15000 THEN <<FALSE, "Duration too long">>
       ELSE IF strip(subtitle.text) = <<>> THEN <<FALSE, "Empty text">>
       ELSE <<TRUE, "">>

\* Subtitle.validate(): <<is_valid, error_message>>
validate(subtitle) ==
    LET start_ms == time_to_ms(subtitle.start_time)
        end_ms == time_to_ms(subtitle.end_time)
    IN IF start_ms.raised # "" THEN <<FALSE, "Invalid start_time format">>
       ELSE IF end_ms.raised # "" THEN <<FALSE, "Invalid end_time format">>
       ELSE IF start_ms.detail >= end_ms.detail THEN <<FALSE, "start_time >= end_time">>
       ELSE IF end_ms.detail - start_ms.detail < 100 THEN <<FALSE, "Duration too short">>
       ELSE IF end_ms.detail - start_ms.detail > 15000 THEN <<FALSE, "Duration too long">>
       ELSE IF strip(subtitle.text) = <<>> THEN <<FALSE, "Empty text">>
       ELSE <<TRUE, "">>

\* the message of a ValueError of parse_srt: the block number, the index
\* where it was read, and the rest of the message
BlockError(block_idx, index, error) ==
    Raised("ValueError", [block |-> block_idx, index |-> index, error |-> error])

\* the cue of a block of three lines and more, or the ValueError
parse_block(block_idx, lines) ==
    IF ~is_int_literal(lines[1])
    THEN BlockError(block_idx, <<>>, "Invalid index")
    ELSE IF timecode_match(lines[2]) = <<>>
    THEN BlockError(block_idx, <<>>, "Invalid timecode format")
    ELSE LET subtitle == Subtitle(int_literal(lines[1]),
                                  timecode_match(lines[2])[1],
                                  timecode_match(lines[2])[2],
                                  strip(join_lines(SubSeqFrom(lines, 3))))
         IN IF validate(subtitle)[1] THEN Returned(subtitle)
            ELSE BlockError(block_idx, <<int_literal(lines[1])>>, validate(subtitle)[2])

\* a loop that reads the index of a block before it counts its lines
RECURSIVE parse_loop_index_first(_, _, _)
parse_loop_index_first(blocks, block_idx, subtitles) ==
    IF block_idx > Len(blocks) THEN Returned(subtitles)
    ELSE LET lines == splitlines(strip(blocks[block_idx]))
         IN IF lines # <<>> /\ ~is_int_literal(lines[1])
            THEN BlockError(block_idx, <<>>, "Invalid index")
            ELSE IF Len(lines) < 3
            THEN parse_loop_index_first(blocks, block_idx + 1, subtitles)
            ELSE IF parse_block(block_idx, lines).raised # ""
            THEN parse_block(block_idx, lines)
            ELSE parse_loop_index_first(blocks, block_idx + 1,
                     Append(subtitles, parse_block(block_idx, lines).detail))

\* the loop over the blocks from block_idx on
RECURSIVE parse_loop(_, _, _)
parse_loop(blocks, block_idx, subtitles) ==
    IF block_idx > Len(blocks) THEN Returned(subtitles)
    ELSE LET lines == splitlines(strip(blocks[block_idx]))
         IN IF Len(lines) < 3 THEN parse_loop(blocks, block_idx + 1, subtitles)
            ELSE IF parse_block(block_idx, lines).raised # ""
            THEN parse_block(block_idx, lines)
            ELSE parse_loop(blocks, block_idx + 1,
                            Append(subtitles, parse_block(block_idx, lines).detail))

\* the blocks parse_srt loops over
blocks_of(content) ==
    split_blocks(strip(remove_fence_close(remove_fence_open(content))), <<>>)

\* parse_srt(content): the cues, or the ValueError
parse_srt(content) ==
    LET parsed == parse_loop(blocks_of(content), 1, <<>>)
    IN IF parsed.raised = "" /\ parsed.detail = <<>>
       THEN Raised("ValueError", [block |-> 0, index |-> <<>>,
                                  error |-> "No valid subtitle entries found"])
       ELSE parsed

----------------------------------------------------------------------------
(* validate_srt_continuity (core/parsers/srt.py) *)

\* an overlap test that also takes a cue ending where the next one starts
overlapping_or_touching(current, next_sub) ==
    time_to_ms(current.end_time).detail >= time_to_ms(next_sub.start_time).detail

\* current.end_ms() > next_sub.start_ms()
overlapping(current, next_sub) ==
    time_to_ms(current.end_time).detail > time_to_ms(next_sub.start_time).detail

\* current.start_ms() >= next_sub.start_ms()
not_ascending(current, next_sub) ==
    time_to_ms(current.start_time).detail >= time_to_ms(next_sub.start_time).detail

\* the message of a defect: its kind and the indexes of the two entries
ContinuityError(kind, current, next_sub) ==
    [kind |-> kind, entry |-> current.index, next_entry |-> next_sub.index]

\* the errors of the pairs from the pair (i, i + 1) on, i being 1-based
RECURSIVE continuity_errors(_, _)
continuity_errors(subtitles, i) ==
    IF i >= Len(subtitles) THEN <<>>
    ELSE (IF not_ascending(subtitles[i], subtitles[i + 1])
          THEN <<ContinuityError("Timecodes not in ascending order",
                                 subtitles[i], subtitles[i + 1])>>
          ELSE <<>>)
         \o (IF overlapping(subtitles[i], subtitles[i + 1])
             THEN <<ContinuityError("Overlapping timecodes",
                                    subtitles[i], subtitles[i + 1])>>
             ELSE <<>>)
         \o continuity_errors(subtitles, i + 1)

\* the times start_ms() and end_ms() read in the loop: all but the end of
\* the last entry
times_read(subtitles) ==
    {subtitles[i].start_time : i \in 1..Len(subtitles)}
        \cup {subtitles[i].end_time : i \in 1..(Len(subtitles) - 1)}

\* validate_srt_continuity(subtitles): <<is_valid, errors>>, or the ValueError
\* of time_to_ms
validate_srt_continuity(subtitles) ==
    IF Len(subtitles) >= 2 /\ \E t \in times_read(subtitles) : ~time_re_match(t)
    THEN Raised("ValueError", "Invalid time format")
    ELSE Returned(<<continuity_errors(subtitles, 1) = <<>>,
                    continuity_errors(subtitles, 1)>>)

----------------------------------------------------------------------------
(* validator.py: text_similarity, validate_output_consistency.  Ratios are  *)
(* rationals <<numerator, denominator>>.                                     *)

\* the class of punct_re besides \s, by code point where not ASCII
ValidatorPunctuation ==
    {"U+3001", "U+3002", "U+FF0C", "U+FF0E", ",", ".", "U+FF01", "U+FF1F", "!",
     "U+300C", "U+300D", "U+300E", "U+300F", "U+FF08", "U+FF09", "(", ")",
     "U+3010", "U+3011", "U+2014", "U+2026", "U+30FB", "U+203B", "U+2605"}

lower_char(c) ==
    IF \E k \in 1..Len(UpperCase) : UpperCase[k] = c
    THEN LowerCase[CHOOSE k \in 1..Len(UpperCase) : UpperCase[k] = c]
    ELSE c

\* punct_re.sub("", text).lower()
validator_normalize(text) ==
    LET kept == SelectSeq(text, LAMBDA c : c \notin ValidatorPunctuation
                                              /\ c \notin Whitespace)
    IN List([k \in 1..Len(kept) |-> lower_char(kept[k])])

\* a ratio that is 1.0 when nothing is left of both texts
ratio_of_normalized_empty_equal(norm1, norm2) ==
    IF norm1 = <<>> /\ norm2 = <<>> THEN <<1, 1>>
    ELSE IF norm1 = <<>> \/ norm2 = <<>> THEN <<0, 1>>
    ELSE <<2 * matching_size(norm1, norm2, 0, Len(norm1), 0, Len(norm2)),
           Len(norm1) + Len(norm2)>>

\* lines 370-373: 0.0 if nothing is left of a text, else
\* SequenceMatcher(None, norm1, norm2).ratio()
ratio_of_normalized(norm1, norm2) ==
    IF norm1 = <<>> \/ norm2 = <<>> THEN <<0, 1>>
    ELSE <<2 * matching_size(norm1, norm2, 0, Len(norm1), 0, Len(norm2)),
           Len(norm1) + Len(norm2)>>

\* validator.text_similarity(text1, text2)
validator_text_similarity(text1, text2) ==
    ratio_of_normalized(validator_normalize(text1), validator_normalize(text2))


\* parse_srt_file(path) (parsers/srt.py): the cues, the FileNotFoundError or
\* the ValueError of parse_srt
parse_srt_file(file) ==
    IF ~file.exists
    THEN Raised("FileNotFoundError", [block |-> 0, index |-> <<>>,
                                      error |-> "SRT file not found"])
    ELSE parse_srt(file.content)

ValidationResult(is_valid, errors, warnings) ==
    [is_valid |-> is_valid, errors |-> errors, warnings |-> warnings]

\* an error or warning that is not about a pair of entries
Finding(kind) == [kind |-> kind, entry |-> 0, next_entry |-> 0]

RatAbsDiff(a, b) == IF a >= b THEN a - b ELSE b - a

\* a count check that takes every difference as an error
count_check_any_difference(source_count, output_count, tolerance) ==
    IF output_count # source_count
    THEN <<<<Finding("Entry count mismatch")>>, <<>>>>
    ELSE <<<<>>, <<>>>>

\* lines 250-264: <<errors, warnings>> of the entry counts
count_check(source_count, output_count, tolerance) ==
    IF RatLess(tolerance, <<RatAbsDiff(output_count, source_count), source_count>>)
    THEN <<<<Finding("Entry count mismatch")>>, <<>>>>
    ELSE IF output_count # source_count
    THEN <<<<>>, <<Finding("Entry count difference")>>>>
    ELSE <<<<>>, <<>>>>

\* min(similarity_min + 0.02, 0.99)
warning_threshold(similarity_min) ==
    IF RatLess(<<50 * similarity_min[1] + similarity_min[2], 50 * similarity_min[2]>>,
               <<99, 100>>)
    THEN <<50 * similarity_min[1] + similarity_min[2], 50 * similarity_min[2]>>
    ELSE <<99, 100>>

\* lines 272-281: <<errors, warnings>> of the similarity
similarity_check(similarity, similarity_min) ==
    IF RatLess(similarity, similarity_min)
    THEN <<<<Finding("Low text similarity")>>, <<>>>>
    ELSE IF RatLess(similarity, warning_threshold(similarity_min))
    THEN <<<<>>, <<Finding("Moderate text similarity")>>>>
    ELSE <<<<>>, <<>>>>

\* " ".join(sub.text for sub in subs)
RECURSIVE joined_text(_)
joined_text(subs) ==
    IF subs = <<>> THEN <<>>
    ELSE IF Len(subs) = 1 THEN subs[1].text
    ELSE subs[1].text \o <<" ">> \o joined_text(Tail(subs))

\* lines 283-289: the result from the findings of the three checks
result_of(count_findings, similarity_findings, continuity_errors_found) ==
    ValidationResult(count_findings[1] \o similarity_findings[1]
                         \o continuity_errors_found = <<>>,
                     count_findings[1] \o similarity_findings[1]
                         \o continuity_errors_found,
                     count_findings[2] \o similarity_findings[2])

\* lines 249-289, both files parsed
consistency_of(source_subs, output_subs, tolerance, similarity_min) ==
    result_of(count_check(Len(source_subs), Len(output_subs), tolerance),
              similarity_check(validator_text_similarity(joined_text(source_subs),
                                                         joined_text(output_subs)),
                               similarity_min),
              validate_srt_continuity(output_subs).detail[2])

\* lines 236-289 from the outcomes of the two calls of parse_srt_file; the
\* output file is not read when the source file has failed
consistency_of_parsed(source_parsed, output_parsed, tolerance, similarity_min) ==
    IF source_parsed.raised = "FileNotFoundError" THEN source_parsed
    ELSE IF source_parsed.raised # ""
    THEN Returned(ValidationResult(FALSE, <<Finding("Source SRT error")>>, <<>>))
    ELSE IF output_parsed.raised = "FileNotFoundError" THEN output_parsed
    ELSE IF output_parsed.raised # ""
    THEN Returned(ValidationResult(FALSE, <<Finding("Output SRT error")>>, <<>>))
    ELSE Returned(consistency_of(source_parsed.detail, output_parsed.detail,
                                 tolerance, similarity_min))

\* validate_output_consistency(source_srt, output_srt, tolerance,
\* similarity_min): the ValidationResult, or the FileNotFoundError that
\* parse_srt_file raises and nothing catches
validate_output_consistency(source_file, output_file, tolerance, similarity_min) ==
    consistency_of_parsed(parse_srt_file(source_file), parse_srt_file(output_file),
                          tolerance, similarity_min)

----------------------------------------------------------------------------
(* pipeline/engines/mapper.py: find_audio_subtitle_mapping.  A proportion   *)
(* is the pair <<char_count, total_chars>>; an allocated duration is in     *)
(* ticks, and the runs draw clip durations that every total_chars divides.  *)

\* the class [、。！？,.!?「」『』…——\s] of the mapper's normalize_text, by
\* code point where the character is not ASCII
MapperPunctuation ==
    {"U+3001", "U+3002", "U+FF01", "U+FF1F", ",", ".", "!", "?", "U+300C",
     "U+300D", "U+300E", "U+300F", "U+2026", "U+2014"}

\* mapper.normalize_text: re.sub(r'[...\s]', '', text).lower()
mapper_normalize_text(text) ==
    LET kept == SelectSeq(text, LAMBDA c : c \notin MapperPunctuation
                                              /\ c \notin Whitespace)
    IN List([k \in 1..Len(kept) |-> lower_char(kept[k])])

calculate_char_count(text) == Len(mapper_normalize_text(text))

\* is_fuzzy_match with threshold 0.8: overlap / max(len1, len2, 1) >= 0.8
is_fuzzy_match(text1, text2) ==
    \/ is_substring(text1, text2)
    \/ is_substring(text2, text1)
    \/ LET overlap == Cardinality({k \in 1..Len(text1) :
                                      \E j \in 1..Len(text2) : text2[j] = text1[k]})
       IN overlap * 10 >= 8 * Max(Max(Len(text1), Len(text2)), 1)

\* the look-ahead loop (lines 86-96): temp_idx when it stops
RECURSIVE look_ahead(_, _, _)
look_ahead(narration_text, subtitles, temp_idx) ==
    IF temp_idx < Len(subtitles)
       /\ LET subtitle_text == mapper_normalize_text(subtitles[temp_idx + 1].text)
          IN \/ is_substring(subtitle_text, narration_text)
             \/ is_fuzzy_match(subtitle_text, narration_text)
    THEN look_ahead(narration_text, subtitles, temp_idx + 1)
    ELSE temp_idx

\* matching_subtitles as 0-based positions (lines 82-101): the run the
\* look-ahead found, or the current cue alone as the 1:1 fallback
matching_subtitles(subtitle_idx, temp_idx, subtitle_count) ==
    IF temp_idx > subtitle_idx
    THEN [k \in 1..(temp_idx - subtitle_idx) |-> subtitle_idx + k - 1]
    ELSE IF subtitle_idx < subtitle_count THEN <<subtitle_idx>> ELSE <<>>

\* total_chars = len(matching_subtitles) if it is 0 (lines 106-108), then
\* proportion = char_count / total_chars if total_chars > 0
\*              else 1.0 / len(matching_subtitles) (line 112)
proportion_of(char_count, counted, matching_count) ==
    LET total_chars == IF counted = 0 THEN matching_count ELSE counted
    IN IF total_chars > 0
       THEN <<char_count, total_chars>>
       ELSE <<1, matching_count>>

\* the mappings of one audio segment (lines 103-121)
mappings_of(audio_seg, subtitles, matching, counted) ==
    [k \in 1..Len(matching) |->
        LET proportion == proportion_of(
                              calculate_char_count(subtitles[matching[k] + 1].text),
                              counted, Len(matching))
        IN SubtitleMapping(audio_seg.index, matching[k] + 1, proportion,
                           (audio_seg.duration_sec * proportion[1])
                               \div proportion[2])]

\* total_chars before the edge case (line 104)
counted_chars(subtitles, matching) ==
    SumSeq([k \in 1..Len(matching) |->
               calculate_char_count(subtitles[matching[k] + 1].text)])

\* the loop over audio_segments from the k-th one (0-based) on; the next
\* segment starts at subtitle_idx = temp_idx (line 124), also after the
\* fallback's subtitle_idx += 1 (line 101)
RECURSIVE mapping_loop(_, _, _, _, _)
mapping_of_segment(nare, subtitles, audio, k, temp_idx, matching) ==
    mappings_of(audio[k + 1], subtitles, matching,
                counted_chars(subtitles, matching))
    \o mapping_loop(nare, subtitles, audio, k + 1,
                    temp_idx)

mapping_loop(nare, subtitles, audio, k, subtitle_idx) ==
    IF k >= Len(audio) THEN <<>>
    ELSE LET temp_idx == look_ahead(
                 mapper_normalize_text(
                     nare[audio[k + 1].index].text),
                 subtitles, subtitle_idx)
         IN mapping_of_segment(nare, subtitles, audio, k, temp_idx,
                               matching_subtitles(subtitle_idx, temp_idx,
                                                  Len(subtitles)))

find_audio_subtitle_mapping(nare, subtitles, audio) ==
    mapping_loop(nare, subtitles, audio, 0, 0)

----------------------------------------------------------------------------
(* tts/tts.py: TTSEngine.generate_segments.  failed is the set of line      *)
(* indexes whose synthesis raises; duration_of gives a clip's duration.     *)

\* the loop over segments (lines 186-235): a line whose synthesis raises is
\* reported and skipped, every other line appends its AudioSegment
RECURSIVE generate_segments(_, _, _)
generate_segments(segments, failed, duration_of) ==
    IF segments = <<>> THEN <<>>
    ELSE (IF segments[1].index \in failed
          THEN <<>>
          ELSE <<AudioSegment(segments[1].index, duration_of[segments[1].index])>>)
         \o generate_segments(Tail(segments), failed, duration_of)

----------------------------------------------------------------------------
(* tools/compress_narration_yaml.py: compress_segments.  A segment is the   *)
(* record of its speaker, text and break_after, "absent" for a key the      *)
(* dictionary does not hold.                                                *)

Segment(speaker, text, break_after) ==
    [speaker |-> speaker, text |-> text, break_after |-> break_after]

\* the endings after which _merge_pair joins without a space: the tuple
\* ("—", "——", "…", "。", "？", "！", "」") by code point
NoJoinerEndings == {"U+2014", "U+2026", "U+3002", "U+FF1F", "U+FF01", "U+300D"}

\* _merge_pair(left, right)
_merge_pair(left, right) ==
    LET left_text == strip(left.text)
        right_text == strip(right.text)
        joiner == IF left_text # <<>> /\ left_text[Len(left_text)] \notin NoJoinerEndings
                  THEN <<" ">> ELSE <<>>
    IN [left EXCEPT !.text = strip(left_text \o joiner \o right_text),
                    !.break_after = IF right.break_after # "absent"
                                    THEN right.break_after ELSE @]

\* _segment_length(seg)
_segment_length(seg) == Len(seg.text)

\* score of the pair at i (0-based) and i + 1
pair_score(working, i) ==
    _segment_length(working[i + 1]) + _segment_length(working[i + 2])

\* the 0-based places i of the adjacent pairs with the same speaker
mergeable(working) ==
    {i \in 0..(Len(working) - 2) : working[i + 1].speaker = working[i + 2].speaker}

\* a choice that takes the first pair with the same speaker, whatever its score
best_idx_first_pair(working) ==
    IF mergeable(working) = {} THEN -1
    ELSE CHOOSE i \in mergeable(working) : \A j \in mergeable(working) : i <= j

\* best_idx after the for loop (lines 53-64): the first pair of the lowest
\* score, -1 for None
best_idx(working) ==
    IF mergeable(working) = {} THEN -1
    ELSE CHOOSE i \in mergeable(working) :
             \A j \in mergeable(working) :
                \/ pair_score(working, i) < pair_score(working, j)
                \/ pair_score(working, i) = pair_score(working, j) /\ i <= j

\* working[best_idx : best_idx + 2] = [merged] (lines 70-71)
merge_at(working, idx) ==
    SubSeq(working, 1, idx)
        \o <<_merge_pair(working[idx + 1], working[idx + 2])>>
        \o SubSeq(working, idx + 3, Len(working))

----------------------------------------------------------------------------
(* Distribution runs: the function applied to bounded inputs *)

timelineVars == <<calculator, audio_segments, narration_segments,
                  scene_markers, timeline_segments, final_time,
                  subtitle_timeline>>

writerVars == <<source_subtitles, nare_script, nare_to_srt, used_srt,
                desired_counts, segment_to_srt, cue_assignment, output_srt,
                write_ok>>

callVars == <<call_args, call_result>>

\* no function is called on its own
IdleCall == call_args = <<>> /\ call_result = <<>>

IdleDist == total_items = 0 /\ durations = <<>> /\ counts = <<>> /\ IdleCall

\* nothing written yet
NothingWritten ==
    /\ nare_to_srt = <<>> /\ used_srt = {}
    /\ desired_counts = <<>> /\ segment_to_srt = <<>>
    /\ cue_assignment = <<>>
    /\ output_srt = NoFile
    /\ write_ok = FALSE

IdleWriter ==
    /\ source_subtitles = <<>> /\ nare_script = NoFile
    /\ NothingWritten

IdleTimeline ==
    /\ calculator = TimelineCalculator(0, 0, 0)
    /\ audio_segments = <<>> /\ narration_segments = <<>>
    /\ scene_markers = {}
    /\ timeline_segments = <<>> /\ final_time = 0
    /\ subtitle_timeline = <<>>

InitDist ==
    /\ pc = "start"
    /\ \/ /\ total_items \in 0..MaxItems
          /\ durations \in SeqsOf(DistDurations, 1, MaxBuckets)
       \/ /\ total_items = 10
          /\ durations = <<20, 20, 60>>
    /\ counts = <<>>
    /\ IdleCall
    /\ IdleTimeline
    /\ IdleWriter

DistributeCounts ==
    /\ pc = "start"
    /\ counts' = _distribute_counts_by_duration(total_items, durations)
    /\ pc' = "distributed"
    /\ UNCHANGED <<total_items, durations, timelineVars, writerVars, callVars>>

NextDist == DistributeCounts

SpecDist == InitDist /\ [][NextDist]_vars

----------------------------------------------------------------------------
(* Timeline runs: both builders applied to bounded clip lists *)

\* the clips the TTS engine returns for the given durations, numbered from 1
AudioOf(durs) == [k \in 1..Len(durs) |-> AudioSegment(k, durs[k])]

\* one narration line per clip
NarrationOf(n) == [k \in 1..n |-> NarrationSegment(k, SpeakerOf(k), TextOf(k))]

InitTimeline ==
    /\ pc = "start"
    /\ IdleDist
    /\ \/ /\ \E durs \in SeqsOf(ClipDurations, 0, MaxClips) :
               /\ audio_segments = AudioOf(durs)
               /\ narration_segments \in {<<>>, NarrationOf(Len(durs))}
          /\ scene_markers \in SUBSET (0..MaxClips)
          /\ \E f \in FrameRates, l \in LeadIns, g \in ClipGapFrames :
               calculator = TimelineCalculator(f, l, g)
       \/ /\ audio_segments = AudioOf(<<50, 75, 42, 63>>)
          /\ narration_segments = <<>>
          /\ scene_markers \in {{2}, {0, 2}}
          /\ calculator = TimelineCalculator(30, 30, 0)
    /\ timeline_segments = <<>> /\ final_time = 0
    /\ subtitle_timeline = <<>>
    /\ IdleWriter

CalculateTimeline ==
    /\ pc = "start"
    /\ timeline_segments' = calculate_timeline(calculator, audio_segments,
                                               narration_segments, scene_markers)
    /\ final_time' = calculate_timeline_cursor(calculator, audio_segments,
                                                 narration_segments, scene_markers)
    /\ pc' = "timeline"
    /\ UNCHANGED <<total_items, durations, counts, calculator, audio_segments,
                   narration_segments, scene_markers, subtitle_timeline,
                   writerVars, callVars>>

CalculateSubtitleTimeline ==
    /\ pc = "timeline"
    /\ subtitle_timeline' = calculate_subtitle_timeline(
                                calculator,
                                one_cue_per_clip_mappings(audio_segments),
                                scene_markers)
    /\ pc' = "subtitle_timeline"
    /\ UNCHANGED <<total_items, durations, counts, calculator, audio_segments,
                   narration_segments, scene_markers, timeline_segments,
                   final_time, writerVars, callVars>>

NextTimeline == CalculateTimeline \/ CalculateSubtitleTimeline

SpecTimeline == InitTimeline /\ [][NextTimeline]_vars

----------------------------------------------------------------------------
(* Writer runs: the timeline is built, then both subtitle files are written *)

\* the cues parse_srt returns for the given texts: numbered from 1, each
\* 1.5 s long, 2 s apart
SubtitlesOf(texts) ==
    [k \in 1..Len(texts) |->
        Subtitle(k, ms_to_time((k - 1) * 2000), ms_to_time((k - 1) * 2000 + 1500),
                 texts[k])]

\* narration lines with the given texts
NarrationWith(texts) ==
    [k \in 1..Len(texts) |-> NarrationSegment(k, SpeakerOf(k), texts[k])]

\* n texts taken from the pool in turn, starting with its entry number first
TextsFrom(pool, first, n) == [k \in 1..n |-> pool[1 + ((first + k) % Len(pool))]]

Init ==
    /\ pc = "start"
    /\ IdleDist
    /\ \E durs \in SeqsOf(WriterDurations, 0, MaxClips) :
         /\ audio_segments = AudioOf(durs)
         /\ \/ /\ narration_segments = <<>>
               /\ nare_script \in {NoFile, FileOf(TextsFrom(NareTexts, 0, 2))}
            \/ /\ \E first \in 1..Len(NareTexts) :
                    narration_segments
                        = NarrationWith(TextsFrom(NareTexts, first, Len(durs)))
               /\ narration_segments # <<>>
               /\ nare_script = NoFile
    /\ scene_markers = {1}
    /\ calculator = TimelineCalculator(30, 30, 0)
    /\ timeline_segments = <<>> /\ final_time = 0
    /\ subtitle_timeline = <<>>
    /\ \E n \in 0..MaxCues, first \in 1..Len(CueTexts) :
         source_subtitles = SubtitlesOf(TextsFrom(CueTexts, first, n))
    /\ NothingWritten

WriteTimecodeSrt ==
    /\ pc = "timeline"
    /\ \E io_ok \in BOOLEAN :
         \E r \in {write_timecode_srt(output_srt, source_subtitles,
                                      timeline_segments, nare_script,
                                      narration_segments, io_ok)} :
            /\ source_subtitles' = r.subs
            /\ nare_to_srt' = r.nare_to_srt
            /\ used_srt' = r.used_srt
            /\ desired_counts' = r.desired_counts
            /\ segment_to_srt' = r.segment_to_srt
            /\ cue_assignment' = r.assignments
            /\ output_srt' = r.file
            /\ write_ok' = r.result
    /\ pc' = "timecode_srt"
    /\ UNCHANGED <<total_items, durations, counts, timelineVars, nare_script,
                   callVars>>

Next == CalculateTimeline \/ WriteTimecodeSrt

Spec == Init /\ [][Next]_vars

----------------------------------------------------------------------------
(* Gap runs: compute_gap applied to bounded texts, roles and scene flags *)

\* text lengths tried: around the 100 characters at which the long text
\* bonus reaches LONG_TEXT_MAX
GapLengths == {0, 1, 2, 50, 99, 100, 101, 150}

\* the characters a text of the gap runs may end with
GapEndings == {"a", "?", "U+FF1F"}

\* the spellings of the role tried
GapRoles ==
    {<<"N", "A">>, <<"D", "L">>, <<"d", "l">>, <<"q">>, <<"Q">>,
     <<"D", "i", "a", "l", "o", "g", "u", "e">>, <<"D", "L", " ">>, <<>>}

\* n - 1 times "a" and then the character last
TextOfLength(n, last) == [k \in 1..n |-> IF k = n THEN last ELSE "a"]

InitGap ==
    /\ pc = "start"
    /\ \E n \in GapLengths, last \in GapEndings, role \in GapRoles,
          is_scene_end \in BOOLEAN :
         call_args = [text |-> TextOfLength(n, last), role |-> role,
                      is_scene_end |-> is_scene_end]
    /\ call_result = <<>>
    /\ total_items = 0 /\ durations = <<>> /\ counts = <<>>
    /\ IdleTimeline
    /\ IdleWriter

ComputeGap ==
    /\ pc = "start"
    /\ call_result' = compute_gap(call_args.text, call_args.role,
                                  call_args.is_scene_end)
    /\ pc' = "gap"
    /\ UNCHANGED <<total_items, durations, counts, timelineVars, writerVars,
                   call_args>>

NextGap == ComputeGap

SpecGap == InitGap /\ [][NextGap]_vars

----------------------------------------------------------------------------
(* Timecode runs: seconds are encoded as a frame timecode and decoded again *)

\* the frame rates tried: whole ones and the NTSC ones
TimecodeRates ==
    {<<24, 1>>, <<25, 1>>, <<30, 1>>, <<60, 1>>, <<2997, 100>>,
     <<30000, 1001>>, <<24000, 1001>>}

\* the seconds tried, in milliseconds
TimecodeSeconds ==
    {0, 1, 33, 34, 500, 999, 1000, 1002, 1500, 30000, 59999, 60000, 100000,
     3599999, 3600000, 3661500, 7322000}

InitTimecode ==
    /\ pc = "start"
    /\ \E seconds_ms \in TimecodeSeconds, fps \in TimecodeRates :
         call_args = [seconds_ms |-> seconds_ms, fps |-> fps]
    /\ call_result = <<>>
    /\ total_items = 0 /\ durations = <<>> /\ counts = <<>>
    /\ IdleTimeline
    /\ IdleWriter

SecondsToTimecode ==
    /\ pc = "start"
    /\ call_result' = [timecode |-> seconds_to_timecode(call_args.seconds_ms,
                                                        call_args.fps)]
    /\ pc' = "encoded"
    /\ UNCHANGED <<total_items, durations, counts, timelineVars, writerVars,
                   call_args>>

TimecodeToSeconds ==
    /\ pc = "encoded"
    /\ call_result' = [timecode |-> call_result.timecode,
                       seconds |-> timecode_to_seconds(call_result.timecode,
                                                       call_args.fps)]
    /\ pc' = "decoded"
    /\ UNCHANGED <<total_items, durations, counts, timelineVars, writerVars,
                   call_args>>

NextTimecode == SecondsToTimecode \/ TimecodeToSeconds

SpecTimecode == InitTimecode /\ [][NextTimecode]_vars

----------------------------------------------------------------------------
(* Millisecond runs: a time is written as a string and read back, or a     *)
(* string is read and written back; call_result lists the results so far   *)

\* the milliseconds tried: the last two are the last one below 100 hours and
\* 100 hours
MsValues ==
    {0, 1, 999, 1000, 59999, 60000, 83456, 3599999, 3600000, 359999999,
     360000000}

\* the strings tried: fields of the right width, also minutes and seconds of
\* 60 and more, and one string with a field too short
TimeStrings ==
    {format_time(Timecode(h, m, s, ms)) :
         h \in {0, 1, 99}, m \in {0, 59, 60}, s \in {0, 59, 75}, ms \in {0, 7, 999}}
        \cup {<<"0", ":", "0", "0", ":", "0", "1", ",", "0", "0", "0">>}

\* the seconds tried: rationals <<num, den>> of ticks
SecondsValues == {<<num, den>> : num \in {0, 1, 7, 55, 36615}, den \in {1, 3, 7}}

InitMs ==
    /\ pc = "start"
    /\ \/ \E ms \in MsValues : call_args = [kind |-> "ms", ms |-> ms]
       \/ \E time_str \in TimeStrings : call_args = [kind |-> "time", time_str |-> time_str]
       \/ \E seconds \in SecondsValues : call_args = [kind |-> "seconds", seconds |-> seconds]
    /\ call_result = <<>>
    /\ total_items = 0 /\ durations = <<>> /\ counts = <<>>
    /\ IdleTimeline
    /\ IdleWriter

\* ms_to_time of the argument, or of the milliseconds just read
MsToTime ==
    /\ \/ pc = "start" /\ call_args.kind = "ms"
       \/ pc = "time_to_ms" /\ Len(call_result) = 1 /\ call_result[1].raised = ""
    /\ \E ms \in {IF pc = "start" THEN call_args.ms ELSE call_result[1].detail} :
         call_result' = Append(call_result, Returned(format_time(ms_to_time(ms))))
    /\ pc' = "ms_to_time"
    /\ UNCHANGED <<total_items, durations, counts, timelineVars, writerVars,
                   call_args>>

SrtTimecodeFromSeconds ==
    /\ pc = "start" /\ call_args.kind = "seconds"
    /\ call_result' = <<Returned(format_time(srt_timecode_from_seconds(call_args.seconds)))>>
    /\ pc' = "srt_timecode_from_seconds"
    /\ UNCHANGED <<total_items, durations, counts, timelineVars, writerVars,
                   call_args>>

\* time_to_ms of the argument, or of the string just written
TimeToMs ==
    /\ \/ pc = "start" /\ call_args.kind = "time"
       \/ pc \in {"ms_to_time", "srt_timecode_from_seconds"} /\ Len(call_result) = 1
    /\ \E time_str \in {IF pc = "start" THEN call_args.time_str
                        ELSE call_result[1].detail} :
         call_result' = Append(call_result, time_to_ms(time_str))
    /\ pc' = "time_to_ms"
    /\ UNCHANGED <<total_items, durations, counts, timelineVars, writerVars,
                   call_args>>

NextMs == MsToTime \/ SrtTimecodeFromSeconds \/ TimeToMs

SpecMs == InitMs /\ [][NextMs]_vars

----------------------------------------------------------------------------
(* Parse runs: parse_srt applied to files put together from a pool of      *)
(* blocks, with and without a markdown code fence around them               *)

\* the largest number of blocks of a file
MaxBlocks == 2

\* the timecode line of a block
TimeLine(start_ms, end_ms, arrow) ==
    format_time(ms_to_time(start_ms)) \o arrow \o format_time(ms_to_time(end_ms))

SpacedArrow == <<" ", "-", "-", ">", " ">>

\* the blocks tried, each the list of its lines:
\*   1..3   cues that validate; 2 and 3 have the shortest and the longest
\*          duration allowed
\*   4..6   fewer than 3 lines: 4 with a good index and timecode line, 5 and
\*          6 with neither
\*   7, 8   3 lines with a malformed index, a malformed timecode line
\*   9..12  3 lines whose cue does not validate: start after end, start at
\*          end, 99 ms, 15001 ms
BlockPool ==
    << <<decimal(1), TimeLine(1000, 2500, SpacedArrow), <<"a">> >>,
       <<decimal(2), TimeLine(3000, 3100, <<"-", "-", ">">>), <<"b">>, <<"c">> >>,
       <<decimal(3) \o <<" ">>, TimeLine(4000, 19000, SpacedArrow), <<"a">> >>,
       <<decimal(4), TimeLine(1000, 2000, SpacedArrow)>>,
       << <<"x">>, <<"a">> >>,
       << <<"x">> >>,
       << <<"x">>, TimeLine(1000, 2000, SpacedArrow), <<"a">> >>,
       <<decimal(5), <<"0", "0", ":", "0", "1", " ", "-", "-", ">", " ", "0", "0", ":", "0", "2">>,
         <<"a">> >>,
       <<decimal(6), TimeLine(2000, 1000, SpacedArrow), <<"a">> >>,
       <<decimal(7), TimeLine(2000, 2000, SpacedArrow), <<"a">> >>,
       <<decimal(8), TimeLine(2000, 2099, SpacedArrow), <<"a">> >>,
       <<decimal(9), TimeLine(1000, 16001, SpacedArrow), <<"a">> >> >>

\* the lines of the blocks chosen, a blank line between two blocks
RECURSIVE LinesOf(_, _)
LinesOf(chosen, blank) ==
    IF chosen = <<>> THEN <<>>
    ELSE IF Len(chosen) = 1 THEN BlockPool[chosen[1]]
    ELSE BlockPool[chosen[1]] \o <<blank>> \o LinesOf(Tail(chosen), blank)

\* the file of the blocks chosen
ContentOf(chosen, blank, fenced) ==
    IF fenced
    THEN join_lines(<< <<"U+0060", "U+0060", "U+0060", "s", "r", "t">> >>
                        \o LinesOf(chosen, blank)
                        \o << <<"U+0060", "U+0060", "U+0060">> >>)
    ELSE join_lines(LinesOf(chosen, blank) \o << <<>> >>)

InitParse ==
    /\ pc = "start"
    /\ \E chosen \in SeqsOf(1..Len(BlockPool), 1, MaxBlocks), blank \in {<<>>, <<" ">>},
          fenced \in BOOLEAN :
         call_args = [chosen |-> chosen, content |-> ContentOf(chosen, blank, fenced)]
    /\ call_result = <<>>
    /\ total_items = 0 /\ durations = <<>> /\ counts = <<>>
    /\ IdleTimeline
    /\ IdleWriter

ParseSrt ==
    /\ pc = "start"
    /\ call_result' = parse_srt(call_args.content)
    /\ pc' = "parsed"
    /\ UNCHANGED <<total_items, durations, counts, timelineVars, writerVars,
                   call_args>>

NextParse == ParseSrt

SpecParse == InitParse /\ [][NextParse]_vars

----------------------------------------------------------------------------
(* Continuity runs: validate_srt_continuity applied to bounded cue lists *)

\* the largest number of entries of a list
MaxEntries == 3

\* the start and end times tried, in milliseconds; an entry may end before
\* it starts
EntryStarts == {0, 1000, 2000}
EntryEnds == {1000, 2000, 2500}

\* the entries with the given <<start, end>> milliseconds, numbered from 1
EntriesOf(times) ==
    [k \in 1..Len(times) |->
        Subtitle(k, format_time(ms_to_time(times[k][1])),
                 format_time(ms_to_time(times[k][2])), <<"a">>)]

InitContinuity ==
    /\ pc = "start"
    /\ \E times \in SeqsOf(EntryStarts \X EntryEnds, 0, MaxEntries) :
         call_args = [times |-> times, subtitles |-> EntriesOf(times)]
    /\ call_result = <<>>
    /\ total_items = 0 /\ durations = <<>> /\ counts = <<>>
    /\ IdleTimeline
    /\ IdleWriter

ValidateSrtContinuity ==
    /\ pc = "start"
    /\ call_result' = validate_srt_continuity(call_args.subtitles)
    /\ pc' = "continuity"
    /\ UNCHANGED <<total_items, durations, counts, timelineVars, writerVars,
                   call_args>>

NextContinuity == ValidateSrtContinuity

SpecContinuity == InitContinuity /\ [][NextContinuity]_vars

----------------------------------------------------------------------------
(* Consistency runs: validate_output_consistency applied to a source file   *)
(* and to output files written from bounded cue lists                        *)

\* the largest number of cues of an output file
MaxOutputCues == 3

\* the cues tried, <<start ms, end ms, text>>: the two of the source, one
\* that overlaps the first, one with another text
CuePool ==
    {<<0, 1000, <<"a", "b">> >>, <<1000, 2000, <<"c", "d">> >>,
     <<500, 1500, <<"c", "d">> >>, <<1000, 2000, <<"x", "y">> >>}

\* the text of the file write_srt writes for the cues
RECURSIVE SrtLines(_, _)
SrtLines(cues, idx) ==
    IF cues = <<>> THEN <<>>
    ELSE <<decimal(idx), TimeLine(cues[1][1], cues[1][2], SpacedArrow), cues[1][3], <<>> >>
             \o SrtLines(Tail(cues), idx + 1)

SrtFile(cues) == FileOf(strip(join_lines(SrtLines(cues, 1))) \o <<"\n">>)

\* the source cues
SourceCues == << <<0, 1000, <<"a", "b">> >>, <<1000, 2000, <<"c", "d">> >> >>

\* a file parse_srt does not take: its one cue lasts 50 ms
BadFile == SrtFile(<< <<0, 50, <<"a">> >> >>)

\* the arguments of a run; source and cues say what the two files hold
ConsistencyArgs(source, cues, tolerance, similarity_min) ==
    [source_srt |-> CASE source = "good" -> SrtFile(SourceCues)
                      [] source = "bad" -> BadFile
                      [] OTHER -> NoFile,
     output_srt |-> IF cues = <<>> THEN BadFile ELSE SrtFile(cues),
     source |-> source,
     cues |-> cues,
     tolerance |-> tolerance,
     similarity_min |-> similarity_min]

InitConsistency ==
    /\ pc = "start"
    /\ \/ \E cues \in SeqsOf(CuePool, 0, MaxOutputCues),
             tolerance \in {<<0, 1>>, <<1, 2>>},
             similarity_min \in {<<1, 2>>, <<19, 20>>} :
            call_args = ConsistencyArgs("good", cues, tolerance, similarity_min)
       \/ \E source \in {"bad", "missing"}, cues \in SeqsOf(CuePool, 0, 1) :
            call_args = ConsistencyArgs(source, cues, <<1, 20>>, <<19, 20>>)
    /\ call_result = <<>>
    /\ total_items = 0 /\ durations = <<>> /\ counts = <<>>
    /\ IdleTimeline
    /\ IdleWriter

ValidateOutputConsistency ==
    /\ pc = "start"
    /\ call_result' = validate_output_consistency(call_args.source_srt,
                          call_args.output_srt, call_args.tolerance,
                          call_args.similarity_min)
    /\ pc' = "consistency"
    /\ UNCHANGED <<total_items, durations, counts, timelineVars, writerVars,
                   call_args>>

NextConsistency == ValidateOutputConsistency

SpecConsistency == InitConsistency /\ [][NextConsistency]_vars

----------------------------------------------------------------------------
(* Similarity runs: validator.text_similarity applied to pairs of texts     *)
(* that are written from a few words in several ways                         *)

\* the words: lower-case letters only, <<>> for no word at all
SimilarityWords ==
    {<<>>, <<"a", "b">>, <<"a", "b", "x">>,
     <<"h", "e", "l", "l", "o", "w", "o", "r", "l", "d">>}

\* the ways a word is written: as it is; in capitals; with a capital first,
\* ", " in the middle and "!" at the end ("Hello, world!"); with a space in
\* the middle ("hello world"); between a space and an ideographic full stop
Spellings == {"plain", "capitals", "punctuated", "spaced", "wrapped"}

Spelled(word, spelling) ==
    CASE spelling = "plain" -> word
      [] spelling = "capitals" -> upper(word)
      [] spelling = "punctuated" ->
             [k \in 1..(Len(word) \div 2) |->
                 IF k = 1 THEN upper_char(word[k]) ELSE word[k]]
                 \o <<",", " ">> \o SubSeqFrom(word, Len(word) \div 2 + 1) \o <<"!">>
      [] spelling = "spaced" ->
             SubSeq(word, 1, Len(word) \div 2) \o <<" ">>
                 \o SubSeqFrom(word, Len(word) \div 2 + 1)
      [] OTHER -> <<" ">> \o word \o <<"U+3002">>

InitSimilarity ==
    /\ pc = "start"
    /\ \E word1 \in SimilarityWords, word2 \in SimilarityWords,
          spelling1 \in Spellings, spelling2 \in Spellings :
         call_args = [word1 |-> word1, word2 |-> word2,
                      text1 |-> Spelled(word1, spelling1),
                      text2 |-> Spelled(word2, spelling2)]
    /\ call_result = <<>>
    /\ total_items = 0 /\ durations = <<>> /\ counts = <<>>
    /\ IdleTimeline
    /\ IdleWriter

TextSimilarity ==
    /\ pc = "start"
    /\ call_result' = validator_text_similarity(call_args.text1, call_args.text2)
    /\ pc' = "similarity"
    /\ UNCHANGED <<total_items, durations, counts, timelineVars, writerVars,
                   call_args>>

NextSimilarity == TextSimilarity

SpecSimilarity == InitSimilarity /\ [][NextSimilarity]_vars

----------------------------------------------------------------------------
(* Writer calls: write_timecode_srt and write_merged_srt on a path that may *)
(* already hold a file, with cue lists and timelines that may be empty      *)

\* what output_path holds before the call: nothing, an empty file, or the
\* file an earlier run wrote
ExistingFiles ==
    {NoFile, FileOf(<<>>),
     FileOf(<<[number |-> 1, start_time |-> <<"0", "0", ":", "0", "0">>,
               end_time |-> <<"0", "0", ":", "0", "1">>, text |-> <<"a">>]>>)}

InitWriterCall ==
    /\ pc = "start"
    /\ total_items = 0 /\ durations = <<>> /\ counts = <<>>
    /\ IdleTimeline
    /\ IdleWriter
    /\ \E file \in ExistingFiles, n \in 0..2, first \in 1..Len(CueTexts),
          durs \in SeqsOf(WriterDurations \ {0}, 0, 2), with_nare \in BOOLEAN,
          io_ok \in BOOLEAN :
         call_args = [file |-> file,
                      subs |-> SubtitlesOf(TextsFrom(CueTexts, first, n)),
                      segments |-> calculate_timeline(
                                       TimelineCalculator(30, 30, 0), AudioOf(durs),
                                       NarrationWith(TextsFrom(NareTexts, 0, Len(durs))),
                                       {1}),
                      nare_segments |-> IF with_nare
                                        THEN NarrationWith(TextsFrom(NareTexts, 0, Len(durs)))
                                        ELSE <<>>,
                      io_ok |-> io_ok]
    /\ call_result = <<>>

WriteTimecodeSrtCall ==
    /\ pc = "start"
    /\ call_result' = <<write_timecode_srt(call_args.file, call_args.subs,
                                           call_args.segments, NoFile,
                                           call_args.nare_segments, call_args.io_ok)>>
    /\ pc' = "timecode_srt"
    /\ UNCHANGED <<total_items, durations, counts, timelineVars, writerVars,
                   call_args>>

WriteMergedSrtCall ==
    /\ pc = "start"
    /\ call_result' = <<write_merged_srt(call_args.file, call_args.subs,
                                         call_args.segments, NoFile,
                                         call_args.nare_segments, call_args.io_ok)>>
    /\ pc' = "merged_srt"
    /\ UNCHANGED <<total_items, durations, counts, timelineVars, writerVars,
                   call_args>>

NextWriterCall == WriteTimecodeSrtCall \/ WriteMergedSrtCall

SpecWriterCall == InitWriterCall /\ [][NextWriterCall]_vars

----------------------------------------------------------------------------
(* Mapper runs: find_audio_subtitle_mapping on narration lines, cues and    *)
(* the clips of the lines that were synthesized, then the subtitle timeline *)
(* of its mappings                                                          *)

MaxMapperCues == 3

\* narration lines and cue texts tried by the mapper runs; "?" and "..."
\* are cues of which normalize_text leaves nothing
MapperNareTexts == {<<"a", "b">>, <<"c", "d", ".">>}
MapperCueTexts == {<<"a">>, <<"A", "b">>, <<"c", "d">>, <<"x", "y">>, <<"?">>}

\* clip durations (ticks) tried by the mapper runs: every total_chars up to
\* 9 divides them
MapperClipDurations == {2520, 5040}

\* the strictly increasing sequences of line numbers 1..n: the lines that
\* were synthesized
SubLists(n) ==
    {s \in SeqsOf(1..n, 0, n) : \A i \in 1..Len(s) : \A j \in 1..Len(s) :
                                    i < j => s[i] < s[j]}

InitMapper ==
    /\ pc = "start"
    /\ IdleDist
    /\ \E lines \in SeqsOf(MapperNareTexts, 1, 2) :
         /\ narration_segments = NarrationWith(lines)
         /\ \E kept \in SubLists(Len(lines)), duration \in MapperClipDurations :
              audio_segments = [k \in 1..Len(kept) |->
                                   AudioSegment(kept[k], duration)]
    /\ \E texts \in SeqsOf(MapperCueTexts, 0, MaxMapperCues) :
         source_subtitles = SubtitlesOf(texts)
    /\ scene_markers \in {{}, {2}}
    /\ calculator = TimelineCalculator(30, 30, 0)
    /\ timeline_segments = <<>> /\ final_time = 0
    /\ subtitle_timeline = <<>>
    /\ nare_script = NoFile
    /\ NothingWritten

FindAudioSubtitleMapping ==
    /\ pc = "start"
    /\ call_result' = find_audio_subtitle_mapping(narration_segments,
                                                  source_subtitles, audio_segments)
    /\ pc' = "mapped"
    /\ UNCHANGED <<total_items, durations, counts, timelineVars, writerVars,
                   call_args>>

MapperSubtitleTimeline ==
    /\ pc = "mapped"
    /\ subtitle_timeline' = calculate_subtitle_timeline(calculator, call_result,
                                                        scene_markers)
    /\ pc' = "mapped_timeline"
    /\ UNCHANGED <<total_items, durations, counts, calculator, audio_segments,
                   narration_segments, scene_markers, timeline_segments,
                   final_time, writerVars, callVars>>

NextMapper == FindAudioSubtitleMapping \/ MapperSubtitleTimeline

SpecMapper == InitMapper /\ [][NextMapper]_vars

----------------------------------------------------------------------------
(* Re-timing runs: the timeline is built from clips of positive duration,   *)
(* the cues are re-timed by write_timecode_srt, and the written file is     *)
(* validated against the source file as in phase 6 of run_pipeline          *)

\* clip durations (ticks) tried by the re-timing runs: 0.2 s, 1 s and 16 s
RetimedDurations == {2, 10, 160}

\* the lines write_timecode_srt appends for its cues (lines 316-319)
RECURSIVE output_lines(_)
output_lines(entries) ==
    IF entries = <<>> THEN <<>>
    ELSE <<decimal(entries[1].number),
           format_time(entries[1].start_time) \o SpacedArrow
               \o format_time(entries[1].end_time),
           entries[1].text, <<>> >>
             \o output_lines(Tail(entries))

\* the text of the written file: "\n".join(output_lines) (line 325)
written_text(file) ==
    IF file.exists THEN FileOf(join_lines(output_lines(file.content))) ELSE file

\* the source file the cues were parsed from, as write_srt writes them
source_text(subs) ==
    FileOf(strip(join_lines(output_lines(
               [k \in 1..Len(subs) |->
                   [number |-> k, start_time |-> subs[k].start_time,
                    end_time |-> subs[k].end_time, text |-> subs[k].text]])))
           \o <<"\n">>)

InitRetimed ==
    /\ pc = "start"
    /\ IdleDist
    /\ \E durs \in SeqsOf(RetimedDurations, 1, MaxClips), first \in 1..Len(NareTexts) :
         /\ audio_segments = AudioOf(durs)
         /\ narration_segments = NarrationWith(TextsFrom(NareTexts, first, Len(durs)))
    /\ nare_script = NoFile
    /\ scene_markers = {1}
    /\ calculator = TimelineCalculator(30, 30, 0)
    /\ timeline_segments = <<>> /\ final_time = 0
    /\ subtitle_timeline = <<>>
    /\ \E n \in 1..MaxCues, first \in 1..Len(CueTexts) :
         source_subtitles = SubtitlesOf(TextsFrom(CueTexts, first, n))
    /\ NothingWritten

\* phase 6 of run_pipeline on the timecode SRT: validate_output_consistency
\* with the tolerance and similarity of the default configuration
ValidateRetimedOutput ==
    /\ pc = "timecode_srt"
    /\ output_srt.exists
    /\ call_result' = validate_output_consistency(
                          source_text(source_subtitles), written_text(output_srt),
                          <<1, 20>>, <<19, 20>>)
    /\ pc' = "validated"
    /\ UNCHANGED <<total_items, durations, counts, timelineVars, writerVars,
                   call_args>>

NextRetimed == CalculateTimeline \/ WriteTimecodeSrt \/ ValidateRetimedOutput

SpecRetimed == InitRetimed /\ [][NextRetimed]_vars

----------------------------------------------------------------------------
(* Synthesis runs: phases 3 and 4 of run_pipeline, the clips are            *)
(* synthesized from the narration lines, some of which may fail, and the    *)
(* timeline is built from the clips that exist                              *)

InitSynthesis ==
    /\ pc = "start"
    /\ total_items = 0 /\ durations = <<>> /\ counts = <<>>
    /\ \E n \in 1..MaxClips :
         /\ narration_segments = NarrationOf(n)
         /\ \E failed \in SUBSET (1..n), duration_of \in [1..n -> ClipDurations \ {0}] :
              call_args = [failed |-> failed, duration_of |-> duration_of]
    /\ audio_segments = <<>>
    /\ scene_markers \in {{}, {1}}
    /\ calculator = TimelineCalculator(30, 30, 0)
    /\ timeline_segments = <<>> /\ final_time = 0
    /\ subtitle_timeline = <<>>
    /\ call_result = <<>>
    /\ IdleWriter

GenerateSegments ==
    /\ pc = "start"
    /\ audio_segments' = generate_segments(narration_segments, call_args.failed,
                                           call_args.duration_of)
    /\ pc' = "audio"
    /\ UNCHANGED <<total_items, durations, counts, calculator,
                   narration_segments, scene_markers, timeline_segments,
                   final_time, subtitle_timeline, writerVars, callVars>>

CalculateTimelineOfAudio ==
    /\ pc = "audio"
    /\ timeline_segments' = calculate_timeline(calculator, audio_segments,
                                               narration_segments, scene_markers)
    /\ final_time' = calculate_timeline_cursor(calculator, audio_segments,
                                                 narration_segments, scene_markers)
    /\ pc' = "timeline"
    /\ UNCHANGED <<total_items, durations, counts, calculator, audio_segments,
                   narration_segments, scene_markers, subtitle_timeline,
                   writerVars, callVars>>

NextSynthesis == GenerateSegments \/ CalculateTimelineOfAudio

SpecSynthesis == InitSynthesis /\ [][NextSynthesis]_vars

----------------------------------------------------------------------------
(* Compression runs: compress_segments step by step; call_result is the     *)
(* list working, pc tells where the call is                                 *)

MaxSegments == 3

\* the segments tried: three lengths for one speaker, an ending that takes
\* no joiner and an empty text for the other
SegmentPool ==
    {Segment("NA", <<"a">>, "absent"), Segment("NA", <<"b", "b", " ">>, "1s"),
     Segment("NA", <<"d", "d", "d", "d">>, "absent"),
     Segment("DL", <<"c", "U+3002">>, "absent"), Segment("DL", <<>>, "2s")}

InitCompress ==
    /\ pc = "start"
    /\ \E segments \in SeqsOf(SegmentPool, 0, MaxSegments), target \in 0..MaxSegments :
         call_args = [segments |-> segments, target |-> target]
    /\ call_result = <<>>
    /\ total_items = 0 /\ durations = <<>> /\ counts = <<>>
    /\ IdleTimeline
    /\ IdleWriter

\* lines 46-51: the two early exits, or working = list(segments)
CompressEnter ==
    /\ pc = "start"
    /\ IF call_args.target <= 0
       THEN pc' = "raised" /\ UNCHANGED call_result
       ELSE /\ call_result' = call_args.segments
            /\ pc' = IF Len(call_args.segments) <= call_args.target
                     THEN "returned" ELSE "loop"
    /\ UNCHANGED <<total_items, durations, counts, timelineVars, writerVars,
                   call_args>>

\* one iteration of the while loop that merges (lines 52-71)
CompressMerge ==
    /\ pc = "loop"
    /\ Len(call_result) > call_args.target
    /\ best_idx(call_result) # -1
    /\ call_result' = merge_at(call_result, best_idx(call_result))
    /\ UNCHANGED <<pc, total_items, durations, counts, timelineVars, writerVars,
                   call_args>>

\* the loop ends, by its condition or by the break of line 68 (line 73)
CompressReturn ==
    /\ pc = "loop"
    /\ Len(call_result) <= call_args.target \/ best_idx(call_result) = -1
    /\ pc' = "returned"
    /\ UNCHANGED <<total_items, durations, counts, timelineVars, writerVars,
                   callVars>>

NextCompress == CompressEnter \/ CompressMerge \/ CompressReturn

SpecCompress == InitCompress /\ [][NextCompress]_vars

\* the call runs on: a step that can be taken is taken
SpecCompressLive == SpecCompress /\ WF_vars(NextCompress)

----------------------------------------------------------------------------
(* Pipeline runs: run_pipeline phase by phase.  What a phase meets (a file  *)
(* that does not parse, a line that is not synthesized, a writer that       *)
(* fails) is drawn when the phase runs.  call_args holds the configuration, *)
(* call_result the locals of run_pipeline: overall_success, whether the     *)
(* lists are empty, the files written, the value returned ("none" while it  *)
(* runs), and reported, the phases that have printed a failure so far.      *)

Writers == {"timecode_srt", "timeline_csv", "timeline_xml", "merged_srt"}

InitPipeline ==
    /\ pc = "start"
    /\ \E fail_fast \in BOOLEAN : call_args = [fail_fast |-> fail_fast]
    /\ call_result = [overall_success |-> TRUE, narration |-> FALSE,
                      audio |-> FALSE, missing_audio |-> FALSE,
                      timeline |-> FALSE, written |-> {}, value |-> "none",
                      reported |-> {}]
    /\ total_items = 0 /\ durations = <<>> /\ counts = <<>>
    /\ IdleTimeline
    /\ IdleWriter

PipelineUnchanged ==
    UNCHANGED <<total_items, durations, counts, timelineVars, writerVars,
                call_args>>

\* phase 1 (lines 268-285): input_srt is "absent" when no ep*.srt is found,
\* "errors" when validate_srt_file returns errors
Phase1Validation ==
    /\ pc = "start"
    /\ \E input_srt \in {"absent", "valid", "errors"} :
         IF input_srt = "errors"
         THEN /\ call_result' =
                    [call_result EXCEPT !.reported = @ \cup {"input_srt"},
                                        !.value = IF call_args.fail_fast
                                                  THEN "False" ELSE @]
              /\ pc' = IF call_args.fail_fast THEN "done" ELSE "phase2"
         ELSE /\ pc' = "phase2"
              /\ UNCHANGED call_result
    /\ PipelineUnchanged

\* phase 2 (lines 287-300)
Phase2ParseSource ==
    /\ pc = "phase2"
    /\ \E source_srt \in {"missing", "unparsable", "parsed"} :
         IF source_srt = "parsed"
         THEN pc' = "phase3" /\ UNCHANGED call_result
         ELSE /\ call_result' = [call_result EXCEPT !.reported = @ \cup {"source_srt"},
                                                    !.value = "False"]
              /\ pc' = "done"
    /\ PipelineUnchanged

\* phase 3 (lines 302-375): no narration source parses, or generate_segments
\* returns a clip for all, some or none of the lines; a line without a clip
\* may still have a file in the audio directory
Phase3Tts ==
    /\ pc = "phase3"
    /\ \/ /\ call_result' =
                [call_result EXCEPT !.reported = @ \cup {"narration"},
                                    !.overall_success = IF call_args.fail_fast
                                                        THEN @ ELSE FALSE,
                                    !.value = IF call_args.fail_fast
                                              THEN "False" ELSE @]
          /\ pc' = IF call_args.fail_fast THEN "done" ELSE "phase4"
       \/ /\ \E clips \in {"all", "some", "none"}, file_left \in BOOLEAN :
               call_result' =
                   [call_result EXCEPT !.narration = TRUE,
                                       !.audio = clips # "none",
                                       !.missing_audio = clips # "all" /\ ~file_left,
                                       !.reported = IF clips = "all" THEN @
                                                    ELSE @ \cup {"audio"}]
          /\ pc' = "phase4"
    /\ PipelineUnchanged

\* phase 4 (lines 384-422)
Phase4Timeline ==
    /\ pc = "phase4"
    /\ call_result' =
           IF ~call_result.audio
           THEN [call_result EXCEPT !.overall_success = FALSE,
                                    !.reported = @ \cup {"timeline"}]
           ELSE [call_result EXCEPT !.timeline = TRUE]
    /\ pc' = "phase5"
    /\ PipelineUnchanged

\* phase 5 (lines 426-501): failed are the writers that return False
Phase5Output ==
    /\ pc = "phase5"
    /\ IF ~call_result.timeline
       THEN /\ call_result' = [call_result EXCEPT !.overall_success = FALSE,
                                                  !.reported = @ \cup {"output"}]
            /\ pc' = "phase6"
       ELSE \E failed \in SUBSET Writers :
              LET output_success == failed = {}
              IN /\ call_result' =
                       [call_result EXCEPT
                           !.written = Writers \ failed,
                           !.overall_success = IF output_success THEN @ ELSE FALSE,
                           !.reported = IF output_success THEN @
                                        ELSE @ \cup {"output"},
                           !.value = IF ~output_success /\ call_args.fail_fast
                                     THEN "False" ELSE @]
                 /\ pc' = IF ~output_success /\ call_args.fail_fast
                          THEN "done" ELSE "phase6"
    /\ PipelineUnchanged

\* phase 6 and the return (lines 505-575)
Phase6Validation ==
    /\ pc = "phase6"
    /\ \E consistent \in BOOLEAN, aligned \in BOOLEAN :
         LET srt_ok == "timecode_srt" \in call_result.written /\ consistent
             audio_ok == ~call_result.narration \/ ~call_result.missing_audio
             timeline_ok == call_result.timeline /\ call_result.audio /\ aligned
             outputs_ok == {"timeline_csv", "timeline_xml", "merged_srt"}
                               \subseteq call_result.written
             phase6_success == srt_ok /\ audio_ok /\ timeline_ok /\ outputs_ok
             overall_success == call_result.overall_success /\ phase6_success
         IN call_result' =
                [call_result EXCEPT !.overall_success = overall_success,
                                    !.reported = IF phase6_success THEN @
                                                 ELSE @ \cup {"validation"},
                                    !.value = IF overall_success
                                              THEN "True" ELSE "False"]
    /\ pc' = "done"
    /\ PipelineUnchanged

NextPipeline ==
    \/ Phase1Validation
    \/ Phase2ParseSource
    \/ Phase3Tts
    \/ Phase4Timeline
    \/ Phase5Output
    \/ Phase6Validation

SpecPipeline == InitPipeline /\ [][NextPipeline]_vars

----------------------------------------------------------------------------
(* Claims about _distribute_counts_by_duration (SpecDist) *)

Distributed == pc = "distributed"

\* C7: largest-remainder total.  For every non-empty list of non-negative
\* durations (all-zero lists included) and every total_items >= 0 the
\* returned counts are one non-negative integer per bucket and sum to
\* total_items.
C7_LargestRemainderTotal ==
    Distributed =>
        /\ Len(counts) = Len(durations)
        /\ \A i \in 1..Len(counts) : counts[i] \in Nat
        /\ SumSeq(counts) = total_items

\* the remainder pass ran: two buckets tie on the weight and one extra item
\* is left over after the floors
C7_Witness ==
    /\ Distributed
    /\ durations = <<60, 60>> /\ total_items = 3
    /\ counts = <<1, 2>>

\* C8 as stated: 10 cues over durations [2, 2, 6] s give the counts [2, 2, 6].
C8_ExactlyProportional ==
    (Distributed /\ total_items = 10 /\ durations = <<20, 20, 60>>)
        => counts = <<2, 2, 6>>

\* C8 amended: 10 cues over durations [2, 2, 6] s give the counts [2, 3, 5]
\* (one each, then floor(7 * [0.2, 0.2, 0.6]) = [1, 1, 4], and the one
\* leftover goes to the later of the two buckets with remainder 0.4); they
\* sum to 10.
C8_ScenarioCounts ==
    (Distributed /\ total_items = 10 /\ durations = <<20, 20, 60>>)
        => (counts = <<2, 3, 5>> /\ SumSeq(counts) = 10)

C8_Witness ==
    Distributed /\ total_items = 10 /\ durations = <<20, 20, 60>>
        /\ Len(counts) = 3

\* C10: with 0 < total_items < number of buckets every count is 0 or 1,
\* exactly total_items buckets get 1, and every bucket with count 1 is at
\* least as long as every bucket with count 0.
C10_LongestBucketsFirst ==
    (Distributed /\ 0 < total_items /\ total_items < Len(durations)) =>
        /\ \A i \in 1..Len(counts) : counts[i] \in {0, 1}
        /\ Cardinality({i \in 1..Len(counts) : counts[i] = 1}) = total_items
        /\ \A i, j \in 1..Len(counts) :
               (counts[i] = 1 /\ counts[j] = 0) => durations[i] >= durations[j]

C10_Witness ==
    /\ Distributed
    /\ total_items = 2 /\ durations = <<20, 0, 60>>
    /\ counts = <<1, 0, 1>>

----------------------------------------------------------------------------
(* Claims about the timeline builders (SpecTimeline) *)

TimelineBuilt == pc \in {"timeline", "subtitle_timeline"}

\* the pause the builder puts between segment k and segment k + 1 (1-based)
LeadInApplied(k) == timeline_segments[k + 1].scene_lead_in_sec > 0
ClipGapApplied == calculator.clip_gap_sec > 0

\* C4: timeline non-overlap.  For every adjacent pair the earlier segment
\* ends no later than the next one starts, and the two times are equal
\* exactly when neither a (non-zero) lead-in nor a (non-zero) clip gap is
\* applied between them.
C4_TimelineNonOverlap ==
    TimelineBuilt =>
        \A k \in 1..(Len(timeline_segments) - 1) :
            /\ timeline_segments[k].end_time_sec
                   <= timeline_segments[k + 1].start_time_sec
            /\ (timeline_segments[k].end_time_sec
                   = timeline_segments[k + 1].start_time_sec)
               <=> (~LeadInApplied(k) /\ ~ClipGapApplied)

\* a clip gap is configured, and a timeline of three clips has it between
\* both pairs, one of them with a lead-in on top
C4_Witness ==
    /\ TimelineBuilt
    /\ Len(timeline_segments) = 3
    /\ ClipGapApplied
    /\ LeadInApplied(1) /\ ~LeadInApplied(2)
    /\ timeline_segments[2].end_time_sec < timeline_segments[3].start_time_sec

\* the lead-in the fold adds before position i (0-based)
FoldLeadIn(i) ==
    IF i > 0 /\ i \in scene_markers THEN calculator.scene_lead_in_sec ELSE 0

\* C5: calculate_timeline is the running-cursor fold.  start[0] = 0 with no
\* lead-in even when index 0 is a marker; start[i] = end[i-1] + clip gap +
\* (lead-in if i is a marker); end[i] = start[i] + duration[i]; no clip gap
\* follows the last clip.  Durations [5.0, 7.5, 4.2, 6.3], marker {2},
\* lead-in 3.0, no gap: [0,5.0], [5.0,12.5], [15.5,19.7], [19.7,26.0].
C5_RunningCursorFold ==
    TimelineBuilt =>
        LET n == Len(timeline_segments) IN
        /\ n = Len(audio_segments)
        /\ n > 0 => /\ timeline_segments[1].start_time_sec = 0
                    /\ timeline_segments[1].scene_lead_in_sec = 0
        /\ \A k \in 2..n :
               /\ timeline_segments[k].start_time_sec
                     = timeline_segments[k - 1].end_time_sec
                       + calculator.clip_gap_sec + FoldLeadIn(k - 1)
               /\ timeline_segments[k].scene_lead_in_sec = FoldLeadIn(k - 1)
        /\ \A k \in 1..n :
               timeline_segments[k].end_time_sec
                   = timeline_segments[k].start_time_sec
                     + audio_segments[k].duration_sec
        /\ final_time = IF n = 0 THEN 0 ELSE timeline_segments[n].end_time_sec
        /\ ( /\ audio_segments = AudioOf(<<50, 75, 42, 63>>)
             /\ scene_markers = {2}
             /\ calculator.scene_lead_in_sec = 30
             /\ calculator.clip_gap_sec = 0 )
           => [k \in 1..n |-> <<timeline_segments[k].start_time_sec,
                                timeline_segments[k].end_time_sec>>]
                 = << <<0, 50>>, <<50, 125>>, <<155, 197>>, <<197, 260>> >>

\* the scenario with index 0 flagged as well: the first segment still starts
\* at 0 and the third one at 15.5 s
C5_Witness ==
    /\ TimelineBuilt
    /\ audio_segments = AudioOf(<<50, 75, 42, 63>>)
    /\ scene_markers = {0, 2}
    /\ timeline_segments[1].is_scene_start
    /\ timeline_segments[1].start_time_sec = 0
    /\ timeline_segments[3].start_time_sec = 155

\* C6: both builders share the lead-in semantics.  With no clip gap, the same
\* durations, the same 0-based scene markers and the same lead-in, the cue
\* timeline built from one-cue-per-clip mappings (subtitle_index = 1-based cue
\* number) has the start, end, is_scene_start and scene_lead_in_sec of the
\* clip timeline at every position.
C6_SameLeadInSemantics ==
    (pc = "subtitle_timeline" /\ calculator.clip_gap_sec = 0) =>
        /\ Len(subtitle_timeline) = Len(timeline_segments)
        /\ \A k \in 1..Len(subtitle_timeline) :
               /\ subtitle_timeline[k].start_time_sec
                      = timeline_segments[k].start_time_sec
               /\ subtitle_timeline[k].end_time_sec
                      = timeline_segments[k].end_time_sec
               /\ subtitle_timeline[k].is_scene_start
                      = timeline_segments[k].is_scene_start
               /\ subtitle_timeline[k].scene_lead_in_sec
                      = timeline_segments[k].scene_lead_in_sec

----------------------------------------------------------------------------
(* Claims about write_timecode_srt (Spec) *)

\* write_timecode_srt has returned
Written == pc = "timecode_srt"

\* the call went past the early return at line 167
Processed == Written /\ source_subtitles # <<>> /\ timeline_segments # <<>>

\* the lists of q one after the other
RECURSIVE Flatten(_)
Flatten(q) == IF q = <<>> THEN <<>> ELSE Head(q) \o Flatten(Tail(q))

\* C1: full coverage.  For a non-empty cue list and a non-empty segment list
\* the committed assignment segment_to_srt holds every cue index
\* 0..total_subs-1 exactly once: no cue is dropped, none is in two segments.
C1_FullCoverage ==
    Processed =>
        \E flat \in {Flatten(segment_to_srt)} :
            /\ Len(flat) = Len(source_subtitles)
            /\ \A c \in 0..(Len(source_subtitles) - 1) :
                   Cardinality({k \in 1..Len(flat) : flat[k] = c}) = 1

\* more cues than segments, so that a segment holds several cues, and a
\* segment of duration zero among them
C1_Witness ==
    /\ Processed
    /\ Len(source_subtitles) = MaxCues
    /\ Len(timeline_segments) >= 2
    /\ \E s \in 1..Len(segment_to_srt) : Len(segment_to_srt[s]) >= 2
    /\ \E s \in 1..Len(timeline_segments) :
           timeline_segments[s].audio_duration_sec = 0

\* C2: order and verbatim text.  A call that writes the file emits one entry
\* per source cue, numbered 1..N, the k-th with the text of the k-th source
\* cue; in the committed assignment every cue of a segment precedes every cue
\* of a later segment; and the call leaves index, text, start and end of every
\* source cue as they were.
C2_OrderAndVerbatim ==
    [][(pc = "timeline" /\ pc' = "timecode_srt") =>
          /\ write_ok' =>
                /\ output_srt'.exists
                /\ Len(output_srt'.content) = Len(source_subtitles)
                /\ \A k \in 1..Len(source_subtitles) :
                       /\ output_srt'.content[k].number = k
                       /\ output_srt'.content[k].text = source_subtitles[k].text
          /\ \A s \in 1..Len(segment_to_srt') :
                 \A t \in (s + 1)..Len(segment_to_srt') :
                     \A c \in SeqRange(segment_to_srt'[s]) :
                         \A d \in SeqRange(segment_to_srt'[t]) : c < d
          /\ \A s \in 1..Len(segment_to_srt') :
                 \A k \in 2..Len(segment_to_srt'[s]) :
                     segment_to_srt'[s][k - 1] < segment_to_srt'[s][k]
          /\ Len(source_subtitles') = Len(source_subtitles)
          /\ \A k \in 1..Len(source_subtitles) :
                 /\ source_subtitles'[k].index = source_subtitles[k].index
                 /\ source_subtitles'[k].text = source_subtitles[k].text
                 /\ source_subtitles'[k].start_time = source_subtitles[k].start_time
                 /\ source_subtitles'[k].end_time = source_subtitles[k].end_time
      ]_vars

\* a written file whose cues lie in two segments and whose first text holds a
\* character that normalize_text removes
C2_Witness ==
    /\ Written /\ write_ok
    /\ Len(output_srt.content) >= 3
    /\ output_srt.content[1].text # source_subtitles[1].normalized
    /\ output_srt.content[1].text # output_srt.content[2].text
    /\ \E s, t \in 1..Len(segment_to_srt) :
           s # t /\ segment_to_srt[s] # <<>> /\ segment_to_srt[t] # <<>>

\* the CueAssignments of segment s (0-based), in the order they were emitted
AssignmentsOf(s) == SelectSeq(cue_assignment, LAMBDA x : x.segment = s)

RatLeq(x, y) == x[1] * y[2] <= y[1] * x[2]

C9_NoSegmentStarved ==
    (Processed /\ Len(source_subtitles) >= Len(timeline_segments)) =>
        /\ Len(desired_counts) = Len(timeline_segments)
        /\ Len(segment_to_srt) = Len(timeline_segments)
        /\ \A s \in 1..Len(timeline_segments) :
               timeline_segments[s].end_time_sec
                   > timeline_segments[s].start_time_sec
               => /\ desired_counts[s] >= 1
                  /\ segment_to_srt[s] # <<>>

\* as many cues as segments, a short and a long segment among them
C9_Witness ==
    /\ Processed
    /\ Len(source_subtitles) = Len(timeline_segments)
    /\ Len(timeline_segments) = MaxClips
    /\ \E s, t \in 1..Len(timeline_segments) :
           /\ timeline_segments[s].audio_duration_sec = 10
           /\ timeline_segments[t].audio_duration_sec = 25
    /\ \A s \in 1..Len(timeline_segments) : Len(segment_to_srt[s]) = 1

\* C11: the committed assignment follows the desired counts.  Segment s holds
\* desired_counts[s] cues; so with fewer cues than segments the cues lie in
\* the segments of the longest durations.
C11_FollowsDesiredCounts ==
    Processed =>
        /\ Len(segment_to_srt) = Len(desired_counts)
        /\ \A s \in 1..Len(segment_to_srt) :
               Len(segment_to_srt[s]) = desired_counts[s]

\* the run on the same number of cues and the same segments with one fixed
\* cue text and no narration at all
ReferenceRun ==
    write_timecode_srt(NoFile,
                       SubtitlesOf([k \in 1..Len(source_subtitles) |-> <<"z">>]),
                       timeline_segments, NoFile, <<>>, TRUE)

\* the start and end timecode of every entry of a file
TimesOf(file) ==
    [k \in 1..Len(file.content) |->
        <<file.content[k].start_time, file.content[k].end_time>>]

----------------------------------------------------------------------------
(* Claims about the gaps of the timeline (SpecTimeline) *)

\* C13: the timeline is built with dynamic gaps.  The pause between the end of
\* segment i and the start of segment i+1 of calculate_timeline is
\* compute_gap of the text and role of segment i (run_pipeline passes no
\* scene ends, so no pause is a scene end's).
C13_DynamicGaps ==
    pc = "timeline" =>
        \A k \in 1..(Len(timeline_segments) - 1) :
            (timeline_segments[k + 1].start_time_sec
                 - timeline_segments[k].end_time_sec) * MsPerTick
                = compute_gap(timeline_segments[k].text,
                              timeline_segments[k].speaker, FALSE)

----------------------------------------------------------------------------
(* Claims about compute_gap (SpecGap) *)

\* compute_gap has returned
GapComputed == pc = "gap"

\* the spellings of GapRoles that are DL, Q or DIALOGUE in some case
DialogueSpellings ==
    {<<"D", "L">>, <<"d", "l">>, <<"q">>, <<"Q">>,
     <<"D", "i", "a", "l", "o", "g", "u", "e">>}

HasQuestionMark(text) == \E k \in 1..Len(text) : text[k] \in {"?", "U+FF1F"}

\* C14: compute_gap is purely additive.  In milliseconds the result is
\* base + question + length, raised to 1800 at a scene end: base is 600 for
\* the roles DL, Q, DIALOGUE in any case and 350 otherwise, question is 300
\* if the text holds '?' or the full-width one, length is min(400, 4 per
\* character) and 0 for the empty text.
C14_PurelyAdditive ==
    GapComputed =>
        \E base \in {IF call_args.role \in DialogueSpellings THEN 600 ELSE 350} :
        \E question \in {IF HasQuestionMark(call_args.text) THEN 300 ELSE 0} :
        \E length \in {IF call_args.text = <<>> THEN 0
                       ELSE IF 4 * Len(call_args.text) < 400
                            THEN 4 * Len(call_args.text) ELSE 400} :
            call_result = IF call_args.is_scene_end /\ base + question + length < 1800
                          THEN 1800
                          ELSE base + question + length

\* a dialogue role in lower case, a full-width question mark, a text past the
\* cap and no scene end: 0.60 + 0.30 + 0.40
C14_Witness ==
    /\ GapComputed
    /\ call_args.role = <<"d", "l">>
    /\ Len(call_args.text) = 150
    /\ call_args.text[150] = "U+FF1F"
    /\ ~call_args.is_scene_end
    /\ call_result = 1300

\* the text without its question marks
WithoutQuestionMarks(text) == SelectSeq(text, LAMBDA c : c \notin {"?", "U+FF1F"})

\* the text with "a" in the place of every question mark
QuestionMarksReplaced(text) ==
    [k \in 1..Len(text) |-> IF text[k] \in {"?", "U+FF1F"} THEN "a" ELSE text[k]]

\* C15: gap monotonicity.  For a fixed role and scene flag a longer text
\* never has a smaller gap (the text cut after any number of characters has
\* at most the gap of the whole), the gap is the same for every length once
\* the long text bonus is at its cap, and a text with a question mark has at
\* least the gap of the same text without it.
C15_GapMonotone ==
    GapComputed =>
        /\ \A n \in GapLengths :
               n <= Len(call_args.text) =>
                   compute_gap(SubSeq(call_args.text, 1, n), call_args.role,
                               call_args.is_scene_end) <= call_result
        /\ \A n \in GapLengths :
               (n >= 100 /\ Len(call_args.text) >= 100) =>
                   compute_gap(TextOfLength(n, call_args.text[Len(call_args.text)]),
                               call_args.role, call_args.is_scene_end)
                       = call_result
        /\ HasQuestionMark(call_args.text) =>
               /\ compute_gap(WithoutQuestionMarks(call_args.text), call_args.role,
                              call_args.is_scene_end) <= call_result
               /\ compute_gap(QuestionMarksReplaced(call_args.text), call_args.role,
                              call_args.is_scene_end) <= call_result

\* a text past the cap with a question mark, no scene end: longer than the
\* text of 99 characters by a real amount, 0.30 above the text without the mark
C15_Witness ==
    /\ GapComputed
    /\ ~call_args.is_scene_end
    /\ Len(call_args.text) = 101
    /\ HasQuestionMark(call_args.text)
    /\ compute_gap(SubSeq(call_args.text, 1, 99), call_args.role, FALSE)
           < call_result - 300
    /\ compute_gap(QuestionMarksReplaced(call_args.text), call_args.role, FALSE)
           = call_result - 300

\* C16: scene floor.  At a scene end the gap is at least SCENE_GAP (1.80 s)
\* and at least the gap of the same text and role without the scene end.
C16_SceneFloor ==
    (GapComputed /\ call_args.is_scene_end) =>
        /\ call_result >= 1800
        /\ call_result >= compute_gap(call_args.text, call_args.role, FALSE)

\* a scene end after the longest gap there is without one (1.30 s)
C16_Witness ==
    /\ GapComputed /\ call_args.is_scene_end
    /\ compute_gap(call_args.text, call_args.role, FALSE) = 1300
    /\ call_result = 1800

----------------------------------------------------------------------------
(* Claims about the frame timecodes (SpecTimecode) *)

Abs(n) == IF n < 0 THEN -n ELSE n

\* a / b < c / d for a, c >= 0 and b, d > 0, compared by the whole parts and
\* then by the rests
LessThanFraction(a, b, c, d) ==
    IF a \div b # c \div d THEN a \div b < c \div d
    ELSE (a % b) * d < (c % d) * b

\* |seconds - seconds_ms / 1000| < 1 / fps for the rational seconds
WithinOneFrame(seconds, seconds_ms, fps) ==
    LessThanFraction(Abs(((seconds[1] \div seconds[2]) * 1000 - seconds_ms) * seconds[2]
                             + (seconds[1] % seconds[2]) * 1000),
                     seconds[2], 1000 * fps[2], fps[1])

\* C17: lossy frame-timecode round trip.  For every s >= 0 and every frame
\* rate r, whole or not, the seconds decoded from the timecode of s differ
\* from s by less than 1/r; 3661.5 s at 29.97 frames per second has the
\* timecode 01:01:01:15.
C17_LossyRoundTrip ==
    pc = "decoded" =>
        /\ call_result.seconds \in Int \X Int
        /\ WithinOneFrame(call_result.seconds, call_args.seconds_ms, call_args.fps)
        /\ (call_args.seconds_ms = 3661500 /\ call_args.fps = <<2997, 100>>) =>
               call_result.timecode
                   = <<"0", "1", ":", "0", "1", ":", "0", "1", ":", "1", "5">>

\* the round trip at the whole rates alone
C17_WholeRates ==
    (pc = "decoded" /\ call_args.fps[2] = 1) =>
        WithinOneFrame(call_result.seconds, call_args.seconds_ms, call_args.fps)

----------------------------------------------------------------------------
(* Claims about the millisecond timecodes (SpecMs) *)

\* both calls of a run have been made
RoundTripDone == Len(call_result) = 2

\* a string HH:MM:SS,mmm and nothing else, with MM and SS below 60
WellFormedTime(text) ==
    /\ Len(text) = 12
    /\ \A k \in {1, 2, 4, 5, 7, 8, 10, 11, 12} : text[k] \in {DigitChars[d] : d \in 1..10}
    /\ text[3] = ":" /\ text[6] = ":" /\ text[9] = ","
    /\ text[4] \in {"0", "1", "2", "3", "4", "5"}
    /\ text[7] \in {"0", "1", "2", "3", "4", "5"}

----------------------------------------------------------------------------
(* Claims about parse_srt (SpecParse) *)

Parsed == pc = "parsed"

\* the blocks of the pool by what the file says of them
ValidBlocks == {1, 2, 3}
MalformedBlocks == {7, 8}
InvalidCueBlocks == {9, 10, 11, 12}

\* the milliseconds of a string HH:MM:SS,mmm, digit by digit
MsOfTime(text) ==
    LET digit(k) == CHOOSE d \in 0..9 : DigitChars[d + 1] = text[k]
    IN (10 * digit(1) + digit(2)) * 3600000 + (10 * digit(4) + digit(5)) * 60000
           + (10 * digit(7) + digit(8)) * 1000
           + 100 * digit(10) + 10 * digit(11) + digit(12)

\* the places of the file whose block stops the parse
FailingPlaces(chosen) ==
    {k \in 1..Len(chosen) : chosen[k] \in MalformedBlocks \cup InvalidCueBlocks}

\* C19: every cue parse_srt returns has start < end, a duration of 100 ms to
\* 15000 ms, both included, and a text that is not empty once trimmed; a
\* file with a block of 3 lines or more whose cue breaks one of these
\* returns no cue list, and where that block is the first the parse stops
\* at, the error names the number of the block and the index of the cue.
C19_CueInvariant ==
    Parsed =>
        /\ call_result.raised = "" =>
               \A k \in 1..Len(call_result.detail) :
                   /\ MsOfTime(call_result.detail[k].start_time)
                          < MsOfTime(call_result.detail[k].end_time)
                   /\ MsOfTime(call_result.detail[k].end_time)
                          - MsOfTime(call_result.detail[k].start_time) \in 100..15000
                   /\ \E j \in 1..Len(call_result.detail[k].text) :
                          call_result.detail[k].text[j] \notin Whitespace
        /\ (\E k \in 1..Len(call_args.chosen) : call_args.chosen[k] \in InvalidCueBlocks) =>
               call_result.raised = "ValueError"
        /\ \A k \in FailingPlaces(call_args.chosen) :
               (call_args.chosen[k] \in InvalidCueBlocks
                    /\ \A j \in FailingPlaces(call_args.chosen) : k <= j) =>
                   /\ call_result.detail.block = k
                   /\ call_result.detail.index
                          = <<int_of_digits(BlockPool[call_args.chosen[k]][1])>>

\* a cue of the shortest duration allowed is returned; or a cue that starts
\* where it ends follows a valid block and stops the parse as block 2
C19_Witness ==
    /\ Parsed
    /\ \/ /\ call_args.chosen = <<2, 3>>
          /\ call_result.raised = "" /\ Len(call_result.detail) = 2
       \/ /\ call_args.chosen = <<1, 10>>
          /\ call_result = BlockError(2, <<7>>, "start_time >= end_time")

\* the cues of the valid blocks among the chosen ones, in their order
RECURSIVE ValidCues(_)
ValidCues(chosen) ==
    IF chosen = <<>> THEN <<>>
    ELSE (IF chosen[1] \in ValidBlocks
          THEN <<[index |-> chosen[1],
                  start_ms |-> CASE chosen[1] = 1 -> 1000 [] chosen[1] = 2 -> 3000
                                 [] OTHER -> 4000,
                  end_ms |-> CASE chosen[1] = 1 -> 2500 [] chosen[1] = 2 -> 3100
                               [] OTHER -> 19000]>>
          ELSE <<>>) \o ValidCues(Tail(chosen))

\* the index and the times of the cues returned
CuesOf(subtitles) ==
    [k \in 1..Len(subtitles) |->
        [index |-> subtitles[k].index,
         start_ms |-> MsOfTime(subtitles[k].start_time),
         end_ms |-> MsOfTime(subtitles[k].end_time)]]

----------------------------------------------------------------------------
(* Claims about validate_srt_continuity (SpecContinuity) *)

\* the pairs of adjacent entries whose starts do not ascend, whose times
\* overlap
UnorderedPairs(times) ==
    {i \in 1..(Len(times) - 1) : ~(times[i][1] < times[i + 1][1])}
OverlappingPairs(times) ==
    {i \in 1..(Len(times) - 1) : ~(times[i][2] <= times[i + 1][1])}

\* C21: validate_srt_continuity does not raise on well-formed timecodes; it
\* returns is_valid true exactly when every adjacent pair has
\* start[i] < start[i+1] and end[i] <= start[i+1]; each condition a pair
\* breaks adds one defect to the list; fewer than two cues are always valid.
C21_ContinuityDefects ==
    pc = "continuity" =>
        /\ call_result.raised = ""
        /\ call_result.detail[1]
               <=> (UnorderedPairs(call_args.times) = {}
                        /\ OverlappingPairs(call_args.times) = {})
        /\ Len(call_result.detail[2])
               = Cardinality(UnorderedPairs(call_args.times))
                     + Cardinality(OverlappingPairs(call_args.times))
        /\ \A i \in UnorderedPairs(call_args.times) :
               \E e \in 1..Len(call_result.detail[2]) :
                   call_result.detail[2][e]
                       = [kind |-> "Timecodes not in ascending order",
                          entry |-> i, next_entry |-> i + 1]
        /\ \A i \in OverlappingPairs(call_args.times) :
               \E e \in 1..Len(call_result.detail[2]) :
                   call_result.detail[2][e]
                       = [kind |-> "Overlapping timecodes",
                          entry |-> i, next_entry |-> i + 1]
        /\ Len(call_args.times) < 2 => call_result.detail[1]

\* three entries: the second starts where the first ends (no defect), the
\* third starts before the second does and inside it (two defects)
C21_Witness ==
    /\ pc = "continuity"
    /\ call_args.times = <<<<0, 1000>>, <<1000, 2500>>, <<0, 1000>>>>
    /\ ~call_result.detail[1]
    /\ Len(call_result.detail[2]) = 2

----------------------------------------------------------------------------
(* Claims about validate_output_consistency (SpecConsistency) *)

\* both files have parsed and the three checks have run
BothParsed ==
    /\ pc = "consistency"
    /\ call_args.source = "good"
    /\ call_args.cues # <<>>

\* the three checks, each from the cues the files were written from
CountWithinTolerance ==
    RatAbsDiff(Len(call_args.cues), Len(SourceCues)) * call_args.tolerance[2]
        <= call_args.tolerance[1] * Len(SourceCues)

SimilarEnough ==
    ~RatLess(validator_text_similarity(
                 joined_text([k \in 1..Len(SourceCues) |-> [text |-> SourceCues[k][3]]]),
                 joined_text([k \in 1..Len(call_args.cues) |->
                                 [text |-> call_args.cues[k][3]]])),
             call_args.similarity_min)

OutputContinuous ==
    \A i \in 1..(Len(call_args.cues) - 1) :
        /\ call_args.cues[i][1] < call_args.cues[i + 1][1]
        /\ call_args.cues[i][2] <= call_args.cues[i + 1][1]

HasFinding(findings, kind) == \E e \in 1..Len(findings) : findings[e].kind = kind

\* C22: once both files parse, the three checks run independently and
\* accumulate.  is_valid is true exactly when the count difference ratio is
\* within the tolerance, the text similarity is at least similarity_min and
\* the output passes the continuity check; every failed check has its error
\* in the list whatever the other two found; a non-zero count difference
\* within the tolerance gives a warning only; is_valid is true exactly when
\* the errors list is empty.
C22_ChecksAccumulate ==
    BothParsed =>
        /\ call_result.raised = ""
        /\ call_result.detail.is_valid
               <=> (CountWithinTolerance /\ SimilarEnough /\ OutputContinuous)
        /\ HasFinding(call_result.detail.errors, "Entry count mismatch")
               <=> ~CountWithinTolerance
        /\ HasFinding(call_result.detail.errors, "Low text similarity")
               <=> ~SimilarEnough
        /\ (HasFinding(call_result.detail.errors, "Timecodes not in ascending order")
                \/ HasFinding(call_result.detail.errors, "Overlapping timecodes"))
               <=> ~OutputContinuous
        /\ (CountWithinTolerance /\ Len(call_args.cues) # Len(SourceCues)) =>
               /\ HasFinding(call_result.detail.warnings, "Entry count difference")
               /\ ~HasFinding(call_result.detail.errors, "Entry count mismatch")
        /\ call_result.detail.is_valid <=> call_result.detail.errors = <<>>

\* all three checks fail at once and all three are reported; or the only
\* finding is the warning of a count difference within the tolerance
C22_Witness ==
    /\ BothParsed
    /\ \/ /\ ~CountWithinTolerance /\ ~SimilarEnough /\ ~OutputContinuous
          /\ Len(call_result.detail.errors) >= 3
       \/ /\ Len(call_args.cues) # Len(SourceCues) /\ call_result.detail.is_valid
          /\ HasFinding(call_result.detail.warnings, "Entry count difference")

----------------------------------------------------------------------------
(* Claims about validator.text_similarity (SpecSimilarity) *)

\* the result lies in [0, 1]
RatioInUnitInterval ==
    /\ call_result[2] > 0
    /\ 0 <= call_result[1] /\ call_result[1] <= call_result[2]

\* C23 as stated: text_similarity is 1.0 for every two texts that are equal
\* once punctuation and whitespace are stripped and the case is folded, so
\* for every text compared with itself, and the result lies in [0, 1].
C23_EqualAfterStripping ==
    pc = "similarity" =>
        /\ call_args.word1 = call_args.word2 => call_result[1] = call_result[2]
        /\ call_args.text1 = call_args.text2 => call_result[1] = call_result[2]
        /\ RatioInUnitInterval

\* C23 as amended: text_similarity is 1.0 for every two texts that are equal
\* and not empty once punctuation and whitespace are stripped and the case
\* is folded; it is 0.0 when nothing is left of one of the texts, also when
\* a text is compared with itself; the result lies in [0, 1].
C23_EqualAndNotEmptyAfterStripping ==
    pc = "similarity" =>
        /\ (call_args.word1 = call_args.word2 /\ call_args.word1 # <<>>) =>
               call_result[1] = call_result[2]
        /\ (call_args.word1 = <<>> \/ call_args.word2 = <<>>) => call_result[1] = 0
        /\ RatioInUnitInterval

\* "Hello, world!" against "hello world" is 1.0
C23_Witness ==
    /\ pc = "similarity"
    /\ call_args.text1 = <<"H", "e", "l", "l", "o", ",", " ", "w", "o", "r", "l", "d", "!">>
    /\ call_args.text2 = <<"h", "e", "l", "l", "o", " ", "w", "o", "r", "l", "d">>
    /\ call_result[1] = call_result[2]

----------------------------------------------------------------------------
(* Claim about the writers' guard (SpecWriterCall) *)

WriterReturned == pc \in {"timecode_srt", "merged_srt"}

NothingToWrite == call_args.subs = <<>> \/ call_args.segments = <<>>

\* C24: with an empty cue list or an empty timeline, write_timecode_srt and
\* write_merged_srt return False, assign no cue to any segment, and leave
\* the output path as it was: not created when absent, not changed when
\* it held a file.
C24_FailFast ==
    (WriterReturned /\ NothingToWrite) =>
        /\ call_result[1].result = FALSE
        /\ call_result[1].file = call_args.file
        /\ call_result[1].nare_to_srt = <<>>
        /\ call_result[1].desired_counts = <<>>
        /\ call_result[1].segment_to_srt = <<>>
        /\ call_result[1].assignments = <<>>
        /\ call_result[1].subs = call_args.subs

\* an empty cue list meets a timeline of two clips and a path that holds a
\* file; the merged writer returns False and the file is as it was
C24_Witness ==
    /\ pc = "merged_srt"
    /\ call_args.subs = <<>> /\ Len(call_args.segments) = 2
    /\ call_args.file.exists /\ call_args.file.content # <<>>
    /\ call_args.io_ok
    /\ call_result[1].result = FALSE
    /\ call_result[1].file = call_args.file

----------------------------------------------------------------------------
(* Claims about find_audio_subtitle_mapping (SpecMapper) *)

Mapped == pc \in {"mapped", "mapped_timeline"}

\* C25: every input subtitle appears in exactly one SubtitleMapping: none
\* is mapped to two audio segments, none is left unmapped, and the
\* subtitle_index values of the returned mappings are strictly increasing.
C25_EveryCueMappedOnce ==
    Mapped =>
        /\ \A i \in 1..Len(source_subtitles) :
              Cardinality({k \in 1..Len(call_result) :
                              call_result[k].subtitle_index = i}) = 1
        /\ \A k \in 1..(Len(call_result) - 1) :
              call_result[k].subtitle_index < call_result[k + 1].subtitle_index

\* the sum of the fractions <<num, den>> of a sequence, as a fraction
RECURSIVE RatSum(_)
RatSum(fractions) ==
    IF fractions = <<>> THEN <<0, 1>>
    ELSE LET rest == RatSum(Tail(fractions))
         IN <<fractions[1][1] * rest[2] + rest[1] * fractions[1][2],
              fractions[1][2] * rest[2]>>

\* the positions of the mappings of the clip with the given index, in order
MappingsOfClip(audio_index) ==
    SelectSeq([k \in 1..Len(call_result) |-> k],
              LAMBDA k : call_result[k].audio_index = audio_index)

MappedClips == {k \in 1..Len(audio_segments) :
                   MappingsOfClip(audio_segments[k].index) # <<>>}

\* C29: for every audio segment with at least one mapped subtitle the
\* proportions of its mappings sum to 1 and their allocated durations sum
\* to the clip's duration; in the subtitle timeline the audio in/out offsets
\* of the cues sharing a clip are contiguous from 0 and the last out offset
\* is the clip's duration.
C29_ClipFullyAllocated ==
    /\ Mapped =>
          \A c \in MappedClips :
             LET at == MappingsOfClip(audio_segments[c].index)
                 total == RatSum([k \in 1..Len(at) |-> call_result[at[k]].proportion])
             IN /\ total[1] = total[2]
                /\ SumSeq([k \in 1..Len(at) |->
                              call_result[at[k]].allocated_duration_sec])
                     = audio_segments[c].duration_sec
    /\ pc = "mapped_timeline" =>
          \A c \in MappedClips :
             LET at == MappingsOfClip(audio_segments[c].index)
             IN /\ subtitle_timeline[at[1]].audio_in_offset_sec = 0
                /\ \A k \in 1..(Len(at) - 1) :
                      subtitle_timeline[at[k]].audio_out_offset_sec
                          = subtitle_timeline[at[k + 1]].audio_in_offset_sec
                /\ subtitle_timeline[at[Len(at)]].audio_out_offset_sec
                     = audio_segments[c].duration_sec

----------------------------------------------------------------------------
(* Claim about the re-timed file and the validator (SpecRetimed) *)

\* C26: the file write_timecode_srt writes for a non-empty list of valid
\* cues and a timeline of clips of positive duration passes the validator:
\* parse_srt accepts it, validate_output_consistency returns is_valid = true
\* with no finding at all, so no entry-count difference and no timecode
\* that overlaps or is out of order.
C26_OutputPassesValidator ==
    pc = "validated" =>
        /\ call_result.raised = ""
        /\ call_result.detail.is_valid
        /\ call_result.detail.errors = <<>>
        /\ call_result.detail.warnings = <<>>
        /\ Len(output_srt.content) = Len(source_subtitles)

----------------------------------------------------------------------------
(* Claim about the narration a timeline segment carries (SpecSynthesis) *)

\* the narration line with the given index
LineOf(index) ==
    narration_segments[CHOOSE k \in 1..Len(narration_segments) :
                           narration_segments[k].index = index]

\* C28: every TimelineSegment of calculate_timeline carries the speaker and
\* the text of the narration line whose index is the segment's index, also
\* when the synthesis skipped lines and the clips are a sub-list of the lines.
C28_SegmentCarriesItsLine ==
    pc = "timeline" =>
        \A k \in 1..Len(timeline_segments) :
            /\ timeline_segments[k].speaker = LineOf(timeline_segments[k].index).speaker
            /\ timeline_segments[k].text = LineOf(timeline_segments[k].index).text

----------------------------------------------------------------------------
(* Claim about compress_segments (SpecCompressLive) *)

\* the characters of a text that are not spaces
NonSpace(text) == SelectSeq(text, LAMBDA c : c \notin Whitespace)

\* all texts of a list in order, spaces left out
RECURSIVE AllText(_)
AllText(segments) ==
    IF segments = <<>> THEN <<>>
    ELSE NonSpace(segments[1].text) \o AllText(Tail(segments))

\* the speakers of a list in order, each run of one speaker counted once
RECURSIVE SpeakerRuns(_)
SpeakerRuns(segments) ==
    IF Len(segments) <= 1 THEN [k \in 1..Len(segments) |-> segments[k].speaker]
    ELSE IF segments[1].speaker = segments[2].speaker
    THEN SpeakerRuns(Tail(segments))
    ELSE <<segments[1].speaker>> \o SpeakerRuns(Tail(segments))

SameSpeakerPairs(segments) ==
    {i \in 1..(Len(segments) - 1) : segments[i].speaker = segments[i + 1].speaker}

CombinedLength(segments, i) == Len(segments[i].text) + Len(segments[i + 1].text)

\* the step from call_result to call_result' merges one adjacent pair of the
\* same speaker and of the least combined length, and nothing else
MergesOneShortestPair ==
    \E i \in SameSpeakerPairs(call_result) :
        /\ \A j \in SameSpeakerPairs(call_result) :
              CombinedLength(call_result, i) <= CombinedLength(call_result, j)
        /\ Len(call_result') = Len(call_result) - 1
        /\ \A k \in 1..(i - 1) : call_result'[k] = call_result[k]
        /\ \A k \in (i + 1)..Len(call_result') : call_result'[k] = call_result[k + 1]
        /\ call_result'[i].speaker = call_result[i].speaker
        /\ NonSpace(call_result'[i].text)
             = NonSpace(call_result[i].text) \o NonSpace(call_result[i + 1].text)

\* what holds of the list compress_segments returns
CompressedAsAsked ==
    pc = "returned" =>
        /\ call_args.target > 0
        /\ \/ Len(call_result) = call_args.target
           \/ /\ Len(call_result) > call_args.target
              /\ SameSpeakerPairs(call_result) = {}
           \/ /\ Len(call_args.segments) <= call_args.target
              /\ call_result = call_args.segments
        /\ Len(call_args.segments) <= call_args.target
              => call_result = call_args.segments
        /\ AllText(call_result) = AllText(call_args.segments)
        /\ SpeakerRuns(call_result) = SpeakerRuns(call_args.segments)

\* C30: compress_segments always terminates; for target > 0 every change of
\* the list merges two adjacent segments of one speaker with the least
\* combined text length; the result has exactly target segments unless no
\* adjacent pair of one speaker is left (then more), it is the input when
\* the input has at most target segments, and the order of texts and
\* speakers is kept.
C30_CompressTerminates ==
    /\ <>(pc \in {"returned", "raised"})
    /\ [](pc = "raised" <=> (pc # "start" /\ call_args.target <= 0))
    /\ []CompressedAsAsked
    /\ [][pc = "loop" /\ call_result' # call_result => MergesOneShortestPair]_vars

\* three segments of one speaker compressed to two: the first two, of
\* lengths 1 and 3, were merged rather than the last two, of lengths 3 and 4
C30_Witness ==
    /\ pc = "returned"
    /\ call_args.target = 2
    /\ call_args.segments = <<Segment("NA", <<"a">>, "absent"),
                              Segment("NA", <<"b", "b", " ">>, "1s"),
                              Segment("NA", <<"d", "d", "d", "d">>, "absent")>>
    /\ call_result = <<Segment("NA", <<"a", " ", "b", "b">>, "1s"),
                       Segment("NA", <<"d", "d", "d", "d">>, "absent")>>

----------------------------------------------------------------------------
(* Claim about run_pipeline (SpecPipeline) *)

\* C27: run_pipeline returns True only if no phase reported a failure,
\* whatever fail_fast is: failed input validation, narration parsing, audio
\* generation, timeline building, output writing or phase 6 checks make it
\* return False; and once overall_success is False no later phase makes it
\* True again.
C27_TrueOnlyWithoutFailure ==
    /\ [](call_result.value = "True" => call_result.reported = {})
    /\ [][call_result.overall_success = FALSE
              => call_result'.overall_success = FALSE]_vars

====
